---------------------------- MODULE Spec2Model ----------------------------
(***************************************************************************)
(* A model of film_manager: the workbook engine of src/src/xls.ts (text    *)
(* normalisation, serial parsers, comparators, sheet reader, workbook      *)
(* writer), the category schema of src/src/config.ts and the React         *)
(* application of src/unnamed/part_000 (form, create / update / delete,    *)
(* loads, auto-save queue, manual save).                                   *)
(*                                                                         *)
(* Text.  A JavaScript string is a sequence of characters; a character is  *)
(* a one-token TLA+ string.  ASCII characters stand for themselves, "LF"   *)
(* and "CR" are the line feed and the carriage return, "TAB" the tab, and  *)
(* a Chinese character is written by a romanised token:                    *)
(*   ying 硬   pan 盘   yi 一   er 二   shi 十   ling 零   wan 万           *)
(*   xu 序     hao 号   ying2 影  die 碟  ming 名  cheng 称  bei 备  zhu 注 *)
(*   dian 电   suo 所   shu 属   zi 字   mu4 幕   lei 类   xing 型          *)
(*   bian 编   pian 片  shuo 说  mu3 母  shou 首  fen 分   mu 目   lu 录    *)
(*   lan 蓝    guang 光 jing 精  zhuang 装   LPFW （ (full-width paren)     *)
(*   san 三 si 四 wu 五 liu 六 qi 七 ba 八 jiu 九 bai 百 qian 千          *)
(*   FWP 。 (full-width period)                                          *)
(***************************************************************************)
EXTENDS Integers, Sequences, FiniteSets, TLC

(***************************************************************************)
(* Characters                                                              *)
(***************************************************************************)
Digits == <<"0", "1", "2", "3", "4", "5", "6", "7", "8", "9">>

IsDigit(c) == \E i \in 1..10 : Digits[i] = c

DigitValue(c) == (CHOOSE i \in 1..10 : Digits[i] = c) - 1

\* JavaScript's String.prototype.trim strips white space and line terminators.
IsWhitespace(c) == c \in {" ", "LF", "CR", "TAB"}

\* String.prototype.toLowerCase on the letters the model uses.
LowerChar(c) ==
  CASE c = "A" -> "a"
    [] c = "B" -> "b"
    [] c = "D" -> "d"
    [] c = "V" -> "v"
    [] c = "X" -> "x"
    [] OTHER -> c

toLowerCase(s) == [i \in 1..Len(s) |-> LowerChar(s[i])]

(***************************************************************************)
(* Text helpers                                                            *)
(***************************************************************************)
RECURSIVE TrimStart(_)
TrimStart(s) ==
  IF s # <<>> /\ IsWhitespace(Head(s)) THEN TrimStart(Tail(s)) ELSE s

RECURSIVE TrimEnd(_)
TrimEnd(s) ==
  IF s # <<>> /\ IsWhitespace(s[Len(s)])
  THEN TrimEnd(SubSeq(s, 1, Len(s) - 1))
  ELSE s

trim(s) == TrimEnd(TrimStart(s))

\* value.replace(/\r?\n/g, " "): every LF, with the CR right before it if
\* there is one, becomes one space; a CR not followed by LF stays.
RECURSIVE ReplaceLineBreaks(_)
ReplaceLineBreaks(s) ==
  IF s = <<>> THEN <<>>
  ELSE IF Len(s) >= 2 /\ s[1] = "CR" /\ s[2] = "LF"
       THEN <<" ">> \o ReplaceLineBreaks(SubSeq(s, 3, Len(s)))
  ELSE IF s[1] = "LF"
       THEN <<" ">> \o ReplaceLineBreaks(Tail(s))
  ELSE <<s[1]>> \o ReplaceLineBreaks(Tail(s))

\* null / undefined cells are the empty text in the model.
normalizeText(value) == trim(ReplaceLineBreaks(value))

normalizeHeader(value) == toLowerCase(normalizeText(value))

StartsWith(s, p) == Len(s) >= Len(p) /\ SubSeq(s, 1, Len(p)) = p

\* String.prototype.includes
Includes(s, p) ==
  \E i \in 0..(Len(s) - Len(p)) : SubSeq(s, i + 1, i + Len(p)) = p

AllDigits(s) == \A i \in 1..Len(s) : IsDigit(s[i])

\* /^\d+$/.test(s)
MatchesInteger(s) == s # <<>> /\ AllDigits(s)

\* /^\d+-\d+$/.test(s)
MatchesRange(s) ==
  \E i \in 2..(Len(s) - 1) :
    /\ s[i] = "-"
    /\ AllDigits(SubSeq(s, 1, i - 1))
    /\ AllDigits(SubSeq(s, i + 1, Len(s)))

\* Number(s) for a text of digits.
RECURSIVE DigitsToNumber(_)
DigitsToNumber(s) ==
  IF s = <<>> THEN 0
  ELSE 10 * DigitsToNumber(SubSeq(s, 1, Len(s) - 1)) + DigitValue(s[Len(s)])

\* String(n) for a natural number.
RECURSIVE NumberToDigits(_)
NumberToDigits(n) ==
  IF n < 10 THEN <<Digits[n + 1]>>
  ELSE NumberToDigits(n \div 10) \o <<Digits[(n % 10) + 1]>>

\* The length of the run of digits s starts with.
RECURSIVE LeadingDigits(_)
LeadingDigits(s) ==
  IF s # <<>> /\ IsDigit(Head(s)) THEN 1 + LeadingDigits(Tail(s)) ELSE 0

Null == -1


(***************************************************************************)
(* Serial and numeral parsers (src/src/xls.ts 120-206)                     *)
(***************************************************************************)
parseNumericSerial(value) ==
  LET normalized == normalizeText(value)
  IN IF ~MatchesInteger(normalized) THEN Null ELSE DigitsToNumber(normalized)

\* The pair <<a, b>>, or <<>> for null.
parseBluraySerial(value) ==
  LET normalized == normalizeText(value)
  IN IF ~MatchesRange(normalized) THEN <<>>
     ELSE LET i == CHOOSE k \in 2..(Len(normalized) - 1) : normalized[k] = "-"
          IN <<DigitsToNumber(SubSeq(normalized, 1, i - 1)),
               DigitsToNumber(SubSeq(normalized, i + 1, Len(normalized)))>>

chineseDigitChars ==
  <<"ling", "yi", "er", "san", "si", "wu", "liu", "qi", "ba", "jiu">>

InChineseDigitMap(c) == \E i \in 1..10 : chineseDigitChars[i] = c

chineseDigitMap(c) == (CHOOSE i \in 1..10 : chineseDigitChars[i] = c) - 1

\* chineseUnitMap[char], 0 standing for undefined.
chineseUnitMap(c) ==
  CASE c = "shi" -> 10
    [] c = "bai" -> 100
    [] c = "qian" -> 1000
    [] c = "wan" -> 10000
    [] OTHER -> 0

\* The loop of parseChineseNumber over the characters from position i on;
\* st holds total, section, digit, hasValidToken and failed (return null).
RECURSIVE ChineseLoop(_, _, _)
ChineseLoop(s, i, st) ==
  IF i > Len(s) \/ st.failed THEN st
  ELSE LET char == s[i]
           unit == chineseUnitMap(char)
       IN IF InChineseDigitMap(char)
          THEN ChineseLoop(s, i + 1,
                 [st EXCEPT !.digit = chineseDigitMap(char),
                            !.hasValidToken = TRUE])
          ELSE IF unit = 0
          THEN [st EXCEPT !.failed = TRUE]
          ELSE IF unit = 10000
          THEN ChineseLoop(s, i + 1,
                 [st EXCEPT !.total = st.total + (st.section + st.digit) * unit,
                            !.section = 0, !.digit = 0,
                            !.hasValidToken = TRUE])
          ELSE ChineseLoop(s, i + 1,
                 [st EXCEPT !.section = st.section
                               + (IF st.digit = 0 THEN 1 ELSE st.digit) * unit,
                            !.digit = 0, !.hasValidToken = TRUE])

\* A numeral parser that reads Arabic digits only.
parseArabicNumber(value) ==
  IF MatchesInteger(normalizeText(value))
  THEN DigitsToNumber(normalizeText(value))
  ELSE Null

parseChineseNumber(value) ==
  LET trimmed == normalizeText(value)
      st == ChineseLoop(trimmed, 1,
              [total |-> 0, section |-> 0, digit |-> 0,
               hasValidToken |-> FALSE, failed |-> FALSE])
  IN IF trimmed = <<>> THEN Null
     ELSE IF MatchesInteger(trimmed) THEN DigitsToNumber(trimmed)
     ELSE IF st.failed \/ ~st.hasValidToken THEN Null
     ELSE st.total + st.section + st.digit

\* normalized.match(/(\d+)/): the leftmost run of digits, <<>> when none.
FirstDigitRun(s) ==
  IF \E i \in 1..Len(s) : IsDigit(s[i])
  THEN LET i == CHOOSE k \in 1..Len(s) :
                  IsDigit(s[k]) /\ \A j \in 1..(k - 1) : ~IsDigit(s[j])
           rest == SubSeq(s, i, Len(s))
       IN SubSeq(rest, 1, LeadingDigits(rest))
  ELSE <<>>

DiskPrefix == <<"ying", "pan">>

\* A disk order that knows Arabic digits only.
parseDiskOrderArabic(value) ==
  IF FirstDigitRun(normalizeText(value)) = <<>> THEN Null
  ELSE DigitsToNumber(FirstDigitRun(normalizeText(value)))

parseDiskOrder(value) ==
  LET normalized == normalizeText(value)
      directNumber == FirstDigitRun(normalized)
      diskSuffix == trim(IF StartsWith(normalized, DiskPrefix)
                         THEN SubSeq(normalized, 3, Len(normalized))
                         ELSE normalized)
  IN IF normalized = <<>> THEN Null
     ELSE IF directNumber # <<>> THEN DigitsToNumber(directNumber)
     ELSE parseChineseNumber(diskSuffix)

parseHddSerialOrder(value) ==
  LET normalized == normalizeText(value)
      n == LeadingDigits(normalized)
  IN IF n > 0 THEN DigitsToNumber(SubSeq(normalized, 1, n)) ELSE Null

(***************************************************************************)
(* compareText (src/src/xls.ts 208-213): localeCompare under zh-Hans-CN    *)
(* with numeric: true and sensitivity: "base".  The collation key of a     *)
(* text is the sequence of its primary weights: case is ignored, a run of  *)
(* digits is one element that compares by its numeric value (so "01" and   *)
(* "1" are equal), white space and punctuation sort before numbers,        *)
(* numbers before letters, Han before Latin, Han in pinyin order.          *)
(***************************************************************************)
CollationOrder ==
  <<"TAB", "LF", "CR", " ", "-", ".", "(", "LPFW",
    "ba", "bai", "bei", "bian", "cheng", "dian", "die", "er", "fen",
    "gua", "guang", "hao", "jing", "jiu", "lan", "lei", "ling", "liu", "lu",
    "ming", "mu", "mu3", "mu4", "pan", "pian", "qi", "qian", "san", "shi",
    "shou", "shu", "shuo", "si", "suo", "wai", "wan", "wu", "xing", "xu", "yi",
    "ying2", "ying", "zhu", "zhuang", "zi",
    "a", "b", "c", "d", "e", "g", "i", "k", "l", "m", "n", "o", "r", "s", "t",
    "u", "v", "x">>

IsPunctuation(c) ==
  LowerChar(c) \in {"TAB", "LF", "CR", " ", "-", ".", "(", "LPFW"}

CharWeight(c) ==
  CHOOSE i \in 1..Len(CollationOrder) : CollationOrder[i] = LowerChar(c)

\* Key elements are <<class, weight>>: class 0 white space and punctuation,
\* 1 a number, 2 a letter.
RECURSIVE CollationKey(_)
CollationKey(s) ==
  IF s = <<>> THEN <<>>
  ELSE IF IsDigit(s[1])
  THEN LET n == LeadingDigits(s)
       IN <<<<1, DigitsToNumber(SubSeq(s, 1, n))>>>>
            \o CollationKey(SubSeq(s, n + 1, Len(s)))
  ELSE <<<<IF IsPunctuation(s[1]) THEN 0 ELSE 2, CharWeight(s[1])>>>>
         \o CollationKey(Tail(s))

RECURSIVE CompareKeys(_, _)
CompareKeys(k1, k2) ==
  IF k1 = <<>> /\ k2 = <<>> THEN 0
  ELSE IF k1 = <<>> THEN -1
  ELSE IF k2 = <<>> THEN 1
  ELSE IF k1[1][1] # k2[1][1]
       THEN (IF k1[1][1] < k2[1][1] THEN -1 ELSE 1)
  ELSE IF k1[1][2] # k2[1][2]
       THEN (IF k1[1][2] < k2[1][2] THEN -1 ELSE 1)
  ELSE CompareKeys(Tail(k1), Tail(k2))

compareText(left, right) == CompareKeys(CollationKey(left), CollationKey(right))

(***************************************************************************)
(* Comparators and sort (src/src/xls.ts 215-321)                           *)
(***************************************************************************)
\* The chain without its third test: a text that does not parse against
\* one that does goes on to the next criterion.
OrderByNumberOneSided(leftOrder, rightOrder, otherwise) ==
  IF leftOrder # Null /\ rightOrder # Null /\ leftOrder # rightOrder
  THEN leftOrder - rightOrder
  ELSE IF leftOrder # Null /\ rightOrder = Null THEN -1
  ELSE otherwise

\* The chain the three comparators share: two parsed numbers that differ
\* decide by their difference, a text that parses sorts before one that
\* does not, and otherwise the next criterion decides.
OrderByNumber(leftOrder, rightOrder, otherwise) ==
  IF leftOrder # Null /\ rightOrder # Null /\ leftOrder # rightOrder
  THEN leftOrder - rightOrder
  ELSE IF leftOrder # Null /\ rightOrder = Null THEN -1
  ELSE IF leftOrder = Null /\ rightOrder # Null THEN 1
  ELSE otherwise

\* if (order !== 0) return order; and then the next criterion.
OrderOrElse(order, otherwise) == IF order # 0 THEN order ELSE otherwise

\* The text order of two records: by serial, then by title.
TextOrder(left, right) ==
  OrderOrElse(
    compareText(normalizeText(left.serial), normalizeText(right.serial)),
    compareText(normalizeText(left.title), normalizeText(right.title)))

\* The order of the serial texts alone, then of the titles.
compareSerialTextOnly(left, right) == TextOrder(left, right)

compareIntegerSerialRecords(left, right) ==
  OrderByNumber(parseNumericSerial(left.serial),
                parseNumericSerial(right.serial),
                TextOrder(left, right))

\* The chain of compareBlurayRecords on the parsed pairs, <<>> for null.
OrderByPair(leftSerial, rightSerial, otherwise) ==
  IF leftSerial # <<>> /\ rightSerial # <<>>
  THEN IF leftSerial[1] # rightSerial[1] THEN leftSerial[1] - rightSerial[1]
       ELSE IF leftSerial[2] # rightSerial[2]
            THEN leftSerial[2] - rightSerial[2]
       ELSE otherwise
  ELSE IF leftSerial # <<>> /\ rightSerial = <<>> THEN -1
  ELSE IF leftSerial = <<>> /\ rightSerial # <<>> THEN 1
  ELSE otherwise

\* Blu-ray serials compared as texts, the pair not parsed.
compareBlurayAsText(left, right) == TextOrder(left, right)

compareBlurayRecords(left, right) ==
  OrderByPair(parseBluraySerial(left.serial), parseBluraySerial(right.serial),
              TextOrder(left, right))

\* compareHddRecords on the normalized disk and serial texts.
HddOrder(leftDisk, rightDisk, leftSerial, rightSerial, titleOrder) ==
  OrderByNumber(parseDiskOrder(leftDisk), parseDiskOrder(rightDisk),
    OrderOrElse(compareText(leftDisk, rightDisk),
      OrderByNumber(parseHddSerialOrder(leftSerial),
                    parseHddSerialOrder(rightSerial),
        OrderOrElse(compareText(leftSerial, rightSerial), titleOrder))))

compareHddRecords(left, right) ==
  HddOrder(normalizeText(left.disk), normalizeText(right.disk),
           normalizeText(left.serial), normalizeText(right.serial),
           compareText(normalizeText(left.title), normalizeText(right.title)))

\* The comparator sortCategoryRecords hands to Array.prototype.sort.
CategoryCompare(categoryId, left, right) ==
  IF categoryId = "hdd" THEN compareHddRecords(left, right)
  ELSE IF categoryId = "bluray" THEN compareBlurayRecords(left, right)
  ELSE compareIntegerSerialRecords(left, right)

\* Array.prototype.sort is a stable sort: the next element is put after
\* every element of the sorted prefix it does not precede.
RECURSIVE InsertRecord(_, _, _)
InsertRecord(categoryId, sorted, r) ==
  IF sorted = <<>> THEN <<r>>
  ELSE IF CategoryCompare(categoryId, sorted[Len(sorted)], r) > 0
  THEN Append(InsertRecord(categoryId, SubSeq(sorted, 1, Len(sorted) - 1), r),
              sorted[Len(sorted)])
  ELSE Append(sorted, r)

RECURSIVE SortFrom(_, _, _)
SortFrom(categoryId, sorted, rest) ==
  IF rest = <<>> THEN sorted
  ELSE SortFrom(categoryId, InsertRecord(categoryId, sorted, Head(rest)),
                Tail(rest))

\* The array as it stands, no comparator applied.
KeepOrder(categoryId, records) == records

sortHddRecords(records) == SortFrom("hdd", <<>>, records)

sortCategoryRecords(categoryId, records) ==
  IF categoryId = "hdd" THEN sortHddRecords(records)
  ELSE SortFrom(categoryId, <<>>, records)


(***************************************************************************)
(* Category schema (src/src/config.ts)                                     *)
(***************************************************************************)
L_serial == <<"xu", "hao">>                             \* 序号
L_discTitle == <<"ying2", "die", "ming", "cheng">>      \* 影碟名称
L_hddTitle == <<"dian", "ying2", "ming", "cheng">>      \* 电影名称
L_remark == <<"bei", "zhu">>                            \* 备注
L_disk == <<"suo", "shu", "ying", "pan">>               \* 所属硬盘
L_subtitle == <<"zi", "mu4">>                           \* 字幕
L_genre == <<"lei", "xing">>                            \* 类型

serialAliases ==
  << <<"bian", "hao">>, <<"n", "o">>, <<"i", "d">> >>   \* 编号, no, id

remarkAliases ==
  << <<"shuo", "ming">>,                                \* 说明
     <<"c", "o", "m", "m", "e", "n", "t", "s">> >>      \* comments

discFields ==
  << [key |-> "serial", label |-> L_serial, aliases |-> serialAliases,
      required |-> TRUE],
     [key |-> "title", label |-> L_discTitle,
      aliases |-> << L_hddTitle, <<"ming", "cheng">>, <<"pian", "ming">> >>,
      required |-> TRUE],
     [key |-> "remark", label |-> L_remark, aliases |-> remarkAliases,
      required |-> FALSE] >>

hddFields ==
  << [key |-> "disk", label |-> L_disk,
      aliases |-> << <<"ying", "pan">>, <<"ying", "pan", "hao">> >>,
      required |-> TRUE],
     [key |-> "serial", label |-> L_serial, aliases |-> serialAliases,
      required |-> TRUE],
     [key |-> "title", label |-> L_hddTitle,
      aliases |-> << L_discTitle, <<"ming", "cheng">>, <<"pian", "ming">> >>,
      required |-> TRUE],
     [key |-> "subtitle", label |-> L_subtitle,
      aliases |-> << <<"zi", "mu3">>, <<"shou", "zi", "mu3">>,
                     <<"l", "e", "t", "t", "e", "r">>,
                     <<"s", "u", "b", "t", "i", "t", "l", "e">> >>,
      required |-> FALSE],
     [key |-> "genre", label |-> L_genre,
      aliases |-> << <<"fen", "lei">>, <<"g", "e", "n", "r", "e">> >>,
      required |-> FALSE],
     [key |-> "remark", label |-> L_remark, aliases |-> remarkAliases,
      required |-> FALSE] >>

\* serialPattern: "integer" is /^\d+$/, "range" is /^\d+-\d+$/, "none" is
\* a category that declares no serialPattern.
categories ==
  << [id |-> "dvd", sheetName |-> <<"D", "V", "D", "mu", "lu">>,
      serialPattern |-> "integer", fields |-> discFields],
     [id |-> "bluray",
      sheetName |-> <<"lan", "guang", "ying2", "die", "mu", "lu">>,
      serialPattern |-> "range", fields |-> discFields],
     [id |-> "collectorBluray",
      sheetName |-> <<"jing", "zhuang", "lan", "guang", "ying2", "die",
                      "mu", "lu">>,
      serialPattern |-> "integer", fields |-> discFields],
     [id |-> "hdd",
      sheetName |-> <<"ying", "pan", "dian", "ying2", "mu", "lu">>,
      serialPattern |-> "none", fields |-> hddFields] >>

CategoryIds == {categories[i].id : i \in 1..Len(categories)}

CategoryIndex(categoryId) ==
  CHOOSE i \in 1..Len(categories) : categories[i].id = categoryId

categoriesById(categoryId) == categories[CategoryIndex(categoryId)]

createEmptyRecords == [c \in CategoryIds |-> <<>>]

\* category.serialPattern.test(serial)
SerialPatternTest(category, serial) ==
  IF category.serialPattern = "integer" THEN MatchesInteger(serial)
  ELSE MatchesRange(serial)

(***************************************************************************)
(* Sheet reader (src/src/xls.ts 36-118, 323-552)                           *)
(*                                                                         *)
(* A workbook buffer is [ok, sheets]: ok is FALSE for a buffer XLSX.read   *)
(* cannot open, sheets is the sequence of [name, rows], rows the grid of   *)
(* cell texts.  A parsed record's id is the tuple of the parts of the id   *)
(* template: <<category, rowIndex, now>> for the flat layout and           *)
(* <<category, rowIndex, columnIndex, now>> for the block layouts.         *)
(***************************************************************************)
RECURSIVE MaxWidth(_)
MaxWidth(rows) ==
  IF rows = <<>> THEN 0
  ELSE LET w == MaxWidth(Tail(rows))
       IN IF Len(Head(rows)) > w THEN Len(Head(rows)) ELSE w

CellAt(row, i) == IF i >= 1 /\ i <= Len(row) THEN row[i] ELSE <<>>

\* XLSX.utils.sheet_to_json(sheet, {header: 1, raw: false, blankrows:
\* false, defval: ""}): every row spans the sheet's range, a missing cell
\* is "".
sheet_to_json(sheet) ==
  LET w == MaxWidth(sheet.rows)
  IN [r \in 1..Len(sheet.rows) |-> [c \in 1..w |-> CellAt(sheet.rows[r], c)]]

RowIsBlank(normalizedRow) ==
  \A i \in 1..Len(normalizedRow) : normalizedRow[i] = <<>>

NormalizeRow(row) == [i \in 1..Len(row) |-> normalizeText(row[i])]

buildAliasSet(category) ==
  UNION { {toLowerCase(category.fields[i].label)}
            \cup {toLowerCase(category.fields[i].aliases[j]) :
                    j \in 1..Len(category.fields[i].aliases)} :
          i \in 1..Len(category.fields) }

HeaderScore(row, aliasSet) ==
  Cardinality({i \in 1..Len(row) : normalizeHeader(row[i]) \in aliasSet})

MaxHeaderRows == 30

\* The loop of findHeaderIndex from row index (0-based) on.
RECURSIVE HeaderLoop(_, _, _, _, _)
HeaderLoop(matrix, aliasSet, index, bestIndex, bestScore) ==
  IF index >= Len(matrix) \/ index >= MaxHeaderRows THEN bestIndex
  ELSE LET score == HeaderScore(matrix[index + 1], aliasSet)
       IN IF score > bestScore
          THEN HeaderLoop(matrix, aliasSet, index + 1, index, score)
          ELSE HeaderLoop(matrix, aliasSet, index + 1, bestIndex, bestScore)

\* The first row taken for the header row, whatever it holds.
firstRowAsHeader(matrix, category) == 0

findHeaderIndex(matrix, category) ==
  HeaderLoop(matrix, buildAliasSet(category), 0, 0, -1)

\* findIndex: the 0-based index of the first cell equal to text, -1 if none.
FindIndex(normalizedHeaders, text) ==
  IF \E i \in 1..Len(normalizedHeaders) : normalizedHeaders[i] = text
  THEN (CHOOSE i \in 1..Len(normalizedHeaders) :
          /\ normalizedHeaders[i] = text
          /\ \A j \in 1..(i - 1) : normalizedHeaders[j] # text) - 1
  ELSE -1

RECURSIVE AliasLoop(_, _, _, _)
AliasLoop(normalizedHeaders, aliases, k, fallbackIndex) ==
  IF k > Len(aliases) THEN fallbackIndex
  ELSE LET aliasIndex == FindIndex(normalizedHeaders, toLowerCase(aliases[k]))
       IN IF aliasIndex >= 0 THEN aliasIndex
          ELSE AliasLoop(normalizedHeaders, aliases, k + 1, fallbackIndex)

resolveColumnIndex(headerRow, field, fallbackIndex) ==
  LET normalizedHeaders ==
        [i \in 1..Len(headerRow) |-> normalizeHeader(headerRow[i])]
      exactIndex == FindIndex(normalizedHeaders, toLowerCase(field.label))
  IN IF exactIndex >= 0 THEN exactIndex
     ELSE AliasLoop(normalizedHeaders, field.aliases, 1, fallbackIndex)

\* A record of the category: its id and one text per field key.
FieldKeys(category) ==
  {category.fields[i].key : i \in 1..Len(category.fields)}

FieldIndex(category, key) ==
  CHOOSE i \in 1..Len(category.fields) : category.fields[i].key = key

MakeRecord(category, id, valueOfKey(_)) ==
  [k \in FieldKeys(category) \cup {"id"} |->
     IF k = "id" THEN id ELSE valueOfKey(k)]

\* The candidates of the flat layout: one per row below the header row.
FlatCandidates(matrix, headerIndex, category, now) ==
  LET columnIndex(key) ==
        resolveColumnIndex(matrix[headerIndex + 1],
                           category.fields[FieldIndex(category, key)],
                           FieldIndex(category, key) - 1)
      RowRecord(rowIndex) ==
        LET value(key) ==
              normalizeText(CellAt(matrix[rowIndex + 1], columnIndex(key) + 1))
        IN MakeRecord(category, <<category.id, rowIndex, now>>, value)
  IN [n \in 1..(Len(matrix) - headerIndex - 1) |-> RowRecord(headerIndex + n)]

FlatRows(matrix, category, now) ==
  IF Len(matrix) = 0 THEN <<>>
  ELSE FlatCandidates(matrix, findHeaderIndex(matrix, category), category, now)

parseFlatSheet(sheet, category, now) ==
  FlatRows(sheet_to_json(sheet), category, now)

\* A record with a serial and a title, whatever the serial looks like.
HasSerialAndTitle(category, record) ==
  normalizeText(record.serial) # <<>> /\ normalizeText(record.title) # <<>>

isValidDiscRecord(category, record) ==
  LET serial == normalizeText(record.serial)
      title == normalizeText(record.title)
  IN IF serial = <<>> \/ title = <<>> THEN FALSE
     ELSE IF category.serialPattern # "none"
             /\ ~SerialPatternTest(category, serial) THEN FALSE
     ELSE TRUE

isValidHddRecord(record) ==
  LET disk == normalizeText(record.disk)
      serial == normalizeText(record.serial)
      title == normalizeText(record.title)
  IN IF disk = <<>> \/ title = <<>> THEN FALSE
     ELSE MatchesInteger(serial)


RECURSIVE Flatten(_)
Flatten(seqs) == IF seqs = <<>> THEN <<>> ELSE Head(seqs) \o Flatten(Tail(seqs))

\* A walk that starts a group at every column.
GroupStartsEveryColumn(length, groupSize) == [n \in 1..length |-> n - 1]

\* The 0-based column indexes a row of the given length is walked at.
GroupStarts(length, groupSize) ==
  [n \in 1..((length + groupSize - 1) \div groupSize) |-> (n - 1) * groupSize]

\* An identifier of the block layout that leaves the column out.
BlockRecordIdOfRow(categoryId, rowIndex, columnIndex, now) ==
  <<categoryId, rowIndex, now>>

\* `${category.id}-${rowIndex}-${columnIndex}-${Date.now()}`, the parts of
\* the identifier kept as a tuple.
BlockRecordId(categoryId, rowIndex, columnIndex, now) ==
  <<categoryId, rowIndex, columnIndex, now>>

\* The candidates of the block layout: for every non-blank row, one per
\* step of groupSize columns whose cells are not all blank.
DiscBlockCandidates(matrix, category, now) ==
  LET groupSize == Len(category.fields)
      RowCandidates(rowIndex) ==
        LET normalizedRow == NormalizeRow(matrix[rowIndex + 1])
            Group(columnIndex) ==
              LET value(key) ==
                    normalizeText(CellAt(normalizedRow,
                                    columnIndex + FieldIndex(category, key)))
              IN MakeRecord(category,
                            BlockRecordId(category.id, rowIndex, columnIndex,
                                          now),
                            value)
            hasAnyValue(record) ==
              \E k \in FieldKeys(category) : record[k] # <<>>
            starts == GroupStarts(Len(normalizedRow), groupSize)
        IN IF RowIsBlank(normalizedRow) THEN <<>>
           ELSE SelectSeq([n \in 1..Len(starts) |-> Group(starts[n])],
                          hasAnyValue)
  IN Flatten([r \in 1..Len(matrix) |-> RowCandidates(r - 1)])

parseDiscBlockSheet(sheet, category, now) ==
  sortCategoryRecords(category.id,
    SelectSeq(DiscBlockCandidates(sheet_to_json(sheet), category, now),
              LAMBDA record : isValidDiscRecord(category, record)))

\* value.match(/^硬盘[^（(]*/u): the heading up to the first parenthesis.
RECURSIVE UntilParenthesis(_)
UntilParenthesis(s) ==
  IF s = <<>> \/ Head(s) \in {"(", "LPFW"} THEN <<>>
  ELSE <<Head(s)>> \o UntilParenthesis(Tail(s))

\* The heading text as the disk name, the annotation in parentheses kept.
headingAsDiskName(value) == trim(value)

extractDiskName(value) ==
  trim(IF StartsWith(value, DiskPrefix) THEN UntilParenthesis(value) ELSE value)

NonEmptyCells(row) == SelectSeq(row, LAMBDA cell : cell # <<>>)

RowIncludes(row, text) == \E i \in 1..Len(row) : row[i] = text

isDiskHeadingRow(row) ==
  LET nonEmptyValues == NonEmptyCells(row)
  IN Len(nonEmptyValues) = 1 /\ StartsWith(nonEmptyValues[1], DiskPrefix)

isHddHeaderRow(row) ==
  /\ RowIncludes(row, L_serial)
  /\ RowIncludes(row, L_hddTitle)
  /\ RowIncludes(row, L_genre)

isLikelyHddBlockLayout(matrix) ==
  LET hasDiskHeading ==
        \E r \in 1..Len(matrix) : isDiskHeadingRow(NormalizeRow(matrix[r]))
      hasRepeatedHeader ==
        \E r \in 1..Len(matrix) :
          LET normalizedRow == NormalizeRow(matrix[r])
              serialHeaderCount ==
                Cardinality({i \in 1..Len(normalizedRow) :
                               normalizedRow[i] = L_serial})
          IN serialHeaderCount >= 2 /\ RowIncludes(normalizedRow, L_hddTitle)
  IN hasDiskHeading /\ hasRepeatedHeader

HddGroupSize == 5

\* The disk context at row index: the name of the last heading row above.
RECURSIVE CurrentDisk(_, _)
CurrentDisk(matrix, rowIndex) ==
  IF rowIndex <= 0 THEN <<>>
  ELSE LET normalizedRow == NormalizeRow(matrix[rowIndex])
       IN IF ~RowIsBlank(normalizedRow) /\ isDiskHeadingRow(normalizedRow)
          THEN extractDiskName(NonEmptyCells(normalizedRow)[1])
          ELSE CurrentDisk(matrix, rowIndex - 1)

\* The candidates of the HDD disk-block layout.
HddBlockCandidates(matrix, now) ==
  LET RowCandidates(rowIndex) ==
        LET normalizedRow == NormalizeRow(matrix[rowIndex + 1])
            currentDisk == CurrentDisk(matrix, rowIndex)
            Group(columnIndex) ==
              [id |-> BlockRecordId("hdd", rowIndex, columnIndex, now),
               disk |-> currentDisk,
               serial |-> normalizeText(CellAt(normalizedRow, columnIndex + 1)),
               title |-> normalizeText(CellAt(normalizedRow, columnIndex + 2)),
               subtitle |-> normalizeText(CellAt(normalizedRow, columnIndex + 3)),
               genre |-> normalizeText(CellAt(normalizedRow, columnIndex + 4)),
               remark |-> normalizeText(CellAt(normalizedRow, columnIndex + 5))]
            hasAnyValue(record) ==
              \E k \in {"serial", "title", "subtitle", "genre", "remark"} :
                normalizeText(record[k]) # <<>>
            starts == GroupStarts(Len(normalizedRow), HddGroupSize)
        IN IF RowIsBlank(normalizedRow) THEN <<>>
           ELSE IF isDiskHeadingRow(normalizedRow) THEN <<>>
           ELSE IF isHddHeaderRow(normalizedRow) THEN <<>>
           ELSE SelectSeq([n \in 1..Len(starts) |-> Group(starts[n])],
                          hasAnyValue)
  IN Flatten([r \in 1..Len(matrix) |-> RowCandidates(r - 1)])

parseHddBlockSheet(sheet, now) ==
  sortHddRecords(SelectSeq(HddBlockCandidates(sheet_to_json(sheet), now),
                           isValidHddRecord))

\* The hard-disk sheet read by the disk-block layout and, when that gives
\* no record, by the flat layout.
parseHddSheetWithFallback(sheet, category, now) ==
  IF isLikelyHddBlockLayout(sheet_to_json(sheet))
     /\ parseHddBlockSheet(sheet, now) # <<>>
  THEN parseHddBlockSheet(sheet, now)
  ELSE sortHddRecords(SelectSeq(parseFlatSheet(sheet, category, now),
                                isValidHddRecord))

parseHddSheet(sheet, category, now) ==
  IF isLikelyHddBlockLayout(sheet_to_json(sheet))
  THEN parseHddBlockSheet(sheet, now)
  ELSE sortHddRecords(SelectSeq(parseFlatSheet(sheet, category, now),
                                isValidHddRecord))

\* The 1-based position of the sheet resolveSheetName returns, 0 for null.
FirstSheet(workbook, Test(_)) ==
  IF \E i \in 1..Len(workbook.sheets) : Test(workbook.sheets[i].name)
  THEN CHOOSE i \in 1..Len(workbook.sheets) :
         /\ Test(workbook.sheets[i].name)
         /\ \A j \in 1..(i - 1) : ~Test(workbook.sheets[j].name)
  ELSE 0

\* The sheet at the category's position, the names not looked at.
resolveSheetByPosition(workbook, category, orderIndex) ==
  IF orderIndex < Len(workbook.sheets) THEN orderIndex + 1 ELSE 0

resolveSheetName(workbook, category, orderIndex) ==
  LET exact(sheetName) == trim(sheetName) = category.sheetName
      fuzzy(sheetName) == Includes(sheetName, category.sheetName)
      exactMatch == FirstSheet(workbook, exact)
      fuzzyMatch == FirstSheet(workbook, fuzzy)
  IN IF exactMatch # 0 THEN exactMatch
     ELSE IF fuzzyMatch # 0 THEN fuzzyMatch
     ELSE IF orderIndex < Len(workbook.sheets) THEN orderIndex + 1
     ELSE 0

\* parsedByBlocks.length > 0 ? parsedByBlocks : the flat parse
BlocksOrElse(parsedByBlocks, parsedFlat) ==
  IF Len(parsedByBlocks) > 0 THEN parsedByBlocks ELSE parsedFlat

ValidDiscRecords(category, candidates) ==
  SelectSeq(candidates, LAMBDA record : isValidDiscRecord(category, record))

parseSheet(sheet, category, now) ==
  IF category.id = "hdd" THEN parseHddSheet(sheet, category, now)
  ELSE BlocksOrElse(
         parseDiscBlockSheet(sheet, category, now),
         sortCategoryRecords(category.id,
           ValidDiscRecords(category, parseFlatSheet(sheet, category, now))))

\* The callback of categories.forEach in parseWorkbook.
parseCategory(workbook, index, sheetIndex, now) ==
  IF sheetIndex = 0 THEN <<>>
  ELSE parseSheet(workbook.sheets[sheetIndex], categories[index], now)

\* parseWorkbook of a buffer XLSX.read opens (buffer.ok); XLSX.read throws
\* on any other buffer.
parseWorkbook(buffer, now) ==
  [c \in CategoryIds |->
     parseCategory(buffer, CategoryIndex(c),
                   resolveSheetName(buffer, categoriesById(c),
                                    CategoryIndex(c) - 1),
                   now)]

(***************************************************************************)
(* Workbook writer (src/src/xls.ts 554-587)                                *)
(***************************************************************************)
HeaderLabels(category) ==
  [i \in 1..Len(category.fields) |-> category.fields[i].label]

\* One row per record, one text cell per field.
SheetRows(category, sortedRecords) ==
  [n \in 1..Len(sortedRecords) |->
     [i \in 1..Len(category.fields) |->
        normalizeText(sortedRecords[n][category.fields[i].key])]]

\* A sheet that gets its header row from json_to_sheet only: no header
\* row when there is no record.
createSheetFromRows(category, records) ==
  [name |-> category.sheetName,
   rows |-> IF records = <<>> THEN <<>>
            ELSE <<HeaderLabels(category)>>
                   \o SheetRows(category,
                                sortCategoryRecords(category.id, records))]

\* json_to_sheet writes the header row and the rows; for no rows
\* aoa_to_sheet writes the header row alone.
createSheet(category, records) ==
  [name |-> category.sheetName,
   rows |-> <<HeaderLabels(category)>>
              \o SheetRows(category,
                           sortCategoryRecords(category.id, records))]

createWorkbook(records) ==
  [i \in 1..Len(categories) |->
     createSheet(categories[i], records[categories[i].id])]

\* XLSX.write followed by XLSX.read carries the sheets, their names and
\* the cell texts (all cells are string cells) over unchanged.
createWorkbookBlob(records) == [ok |-> TRUE, sheets |-> createWorkbook(records)]


(***************************************************************************)
(* Serial assignment of the form (src/unnamed/part_000 88-276)             *)
(***************************************************************************)
parseIntegerSerial(value) ==
  LET normalized == trim(value)
  IN IF ~MatchesInteger(normalized) THEN Null ELSE DigitsToNumber(normalized)

AppParseBluraySerial(value) ==
  LET normalized == trim(value)
  IN IF ~MatchesRange(normalized) THEN <<>>
     ELSE LET i == CHOOSE k \in 2..(Len(normalized) - 1) : normalized[k] = "-"
          IN <<DigitsToNumber(SubSeq(normalized, 1, i - 1)),
               DigitsToNumber(SubSeq(normalized, i + 1, Len(normalized)))>>

parseChineseDiskNumber(value) ==
  LET normalized == trim(value)
      st == ChineseLoop(normalized, 1,
              [total |-> 0, section |-> 0, digit |-> 0,
               hasValidToken |-> FALSE, failed |-> FALSE])
  IN IF normalized = <<>> THEN Null
     ELSE IF MatchesInteger(normalized) THEN DigitsToNumber(normalized)
     ELSE IF st.failed \/ ~st.hasValidToken THEN Null
     ELSE st.total + st.section + st.digit

AppParseDiskOrder(diskName) ==
  LET normalized == trim(diskName)
      numeric == FirstDigitRun(normalized)
      suffix == trim(IF StartsWith(normalized, DiskPrefix)
                     THEN SubSeq(normalized, 3, Len(normalized))
                     ELSE normalized)
  IN IF normalized = <<>> THEN Null
     ELSE IF numeric # <<>> THEN DigitsToNumber(numeric)
     ELSE parseChineseDiskNumber(suffix)

\* The forEach of getHighestDiskName; st is [bestDisk, bestOrder].
RECURSIVE HighestDiskLoop(_, _, _)
HighestDiskLoop(records, i, st) ==
  IF i > Len(records) THEN st
  ELSE LET disk == trim(records[i].disk)
           order == AppParseDiskOrder(disk)
       IN IF disk = <<>> THEN HighestDiskLoop(records, i + 1, st)
          ELSE IF order # Null /\ order > st.bestOrder
          THEN HighestDiskLoop(records, i + 1,
                               [bestDisk |-> disk, bestOrder |-> order])
          ELSE IF order = Null /\ st.bestDisk = <<>>
          THEN HighestDiskLoop(records, i + 1, [st EXCEPT !.bestDisk = disk])
          ELSE HighestDiskLoop(records, i + 1, st)

getHighestDiskName(records) ==
  HighestDiskLoop(records, 1, [bestDisk |-> <<>>, bestOrder |-> -1]).bestDisk

Max(a, b) == IF a > b THEN a ELSE b

\* The reduce of getNextIntegerSerial.
RECURSIVE MaxIntegerSerial(_)
MaxIntegerSerial(records) ==
  IF records = <<>> THEN 0
  ELSE LET currentMax == MaxIntegerSerial(SubSeq(records, 1, Len(records) - 1))
           serialValue == parseIntegerSerial(records[Len(records)].serial)
       IN IF serialValue = Null THEN currentMax
          ELSE Max(currentMax, serialValue)

getNextIntegerSerial(records) == NumberToDigits(MaxIntegerSerial(records) + 1)

\* The reduce of getNextHddSerial.
RECURSIVE MaxSerialOnDisk(_, _)
MaxSerialOnDisk(records, targetDisk) ==
  IF records = <<>> THEN 0
  ELSE LET currentMax ==
             MaxSerialOnDisk(SubSeq(records, 1, Len(records) - 1), targetDisk)
           record == records[Len(records)]
           serialValue == parseIntegerSerial(record.serial)
       IN IF trim(record.disk) # targetDisk THEN currentMax
          ELSE IF serialValue = Null THEN currentMax
          ELSE Max(currentMax, serialValue)

BlurayRollover == 510

\* The forEach of getNextBluraySerial; st is <<maxA, maxB>>.
RECURSIVE BlurayMaxLoop(_, _, _)
BlurayMaxLoop(records, i, st) ==
  IF i > Len(records) THEN st
  ELSE LET parsed == AppParseBluraySerial(records[i].serial)
       IN IF parsed = <<>> THEN BlurayMaxLoop(records, i + 1, st)
          ELSE IF parsed[1] > st[1] \/ (parsed[1] = st[1] /\ parsed[2] > st[2])
          THEN BlurayMaxLoop(records, i + 1, parsed)
          ELSE BlurayMaxLoop(records, i + 1, st)

getNextBluraySerial(records) ==
  LET st == BlurayMaxLoop(records, 1, <<1, 0>>)
      maxA == st[1]
      maxB == st[2]
  IN IF maxB >= BlurayRollover THEN NumberToDigits(maxA + 1) \o <<"-", "1">>
     ELSE IF maxB = 0 THEN <<"1", "-", "1">>
     ELSE NumberToDigits(maxA) \o <<"-">> \o NumberToDigits(maxB + 1)

getNextHddSerial(records, diskValue) ==
  LET targetDisk == trim(diskValue)
  IN IF targetDisk = <<>> THEN <<>>
     ELSE NumberToDigits(MaxSerialOnDisk(records, targetDisk) + 1)

\* formValues.disk ?? "": a form of a disc category has no disk.
FormDisk(formValues) ==
  IF "disk" \in DOMAIN formValues THEN formValues.disk ELSE <<>>

computeAutoSerial(categoryId, categoryRecords, formValues) ==
  IF categoryId = "bluray" THEN getNextBluraySerial(categoryRecords)
  ELSE IF categoryId = "hdd"
  THEN getNextHddSerial(categoryRecords, FormDisk(formValues))
  ELSE getNextIntegerSerial(categoryRecords)

(***************************************************************************)
(* The application (src/unnamed/part_000 278-682)                          *)
(*                                                                         *)
(* React state: records, activeCategory, isFormOpen, editingId,            *)
(* formValues, errorMessage, isSaving.  autoSaveQueue holds the auto-saves *)
(* chained on autoSaveQueueRef that have not started; saving holds the     *)
(* persistRecords calls that have started and not settled; loads holds     *)
(* the loadDefaultFile ("default") and handlePickFile ("pick") calls that  *)
(* wait for the answer of the storage collaborator.                        *)
(* file is the content of the data file behind the storage collaborator,   *)
(* now the value of Date.now().  mutations, loadsStarted, manualSaves,     *)
(* autoStarted and autoSettled record the history: the numbers of create / *)
(* update / delete operations, of loads and of manual saves so far, and    *)
(* the auto-saves started and settled, in order.  searchValue is the text  *)
(* of the search box.  argument and result hold the input and the output   *)
(* of a function of the workbook engine where one is applied on its own    *)
(* (SpecText, SpecSort); the application leaves them alone.                *)
(***************************************************************************)
VARIABLES records, activeCategory, isFormOpen, editingId, formValues,
          errorMessage, isSaving, autoSaveQueue, saving, loads, file, now,
          mutations, loadsStarted, manualSaves, autoStarted, autoSettled,
          searchValue, argument, result, host

vars == <<records, activeCategory, isFormOpen, editingId, formValues,
          errorMessage, isSaving, autoSaveQueue, saving, loads, file, now,
          mutations, loadsStarted, manualSaves, autoStarted, autoSettled,
          searchValue, argument, result, host>>

\* argument and result when no function of the workbook engine is being
\* applied on its own.
NoArgument == [fn |-> "none"]
NoResult == [fn |-> "none"]

\* Bound of the model: the number of operations the user starts after the
\* mount (create, update, delete, manual save, reload, pick).
MaxEvents == 2

DEFAULT_CATEGORY == "dvd"

\* editingId = null
NoId == <<>>

\* A buffer XLSX.read cannot open.
MalformedBuffer == [ok |-> FALSE, sheets |-> <<>>]

\* A hand-edited workbook.  The DVD sheet is in block layout: two records
\* side by side, out of order, and a group without title.  The hard-disk
\* sheet is in disk-block layout: a disk heading, the repeated header row,
\* one record.  The Blu-ray sheet has two rows, out of order.
LegacyBuffer ==
  [ok |-> TRUE,
   sheets |->
     << [name |-> <<"D", "V", "D", "mu", "lu">>,
         rows |-> << << <<"2">>, <<"a">>, <<>>, <<"1">>, <<"a">>, <<>> >>,
                     << <<"3">>, <<>>, <<"r">> >> >>],
        [name |-> <<"ying", "pan", "dian", "ying2", "mu", "lu">>,
         rows |-> << << <<"ying", "pan", "yi", "LPFW", "2", "t">> >>,
                     << L_serial, L_hddTitle, L_subtitle, L_genre, L_remark,
                        L_serial, L_hddTitle, L_subtitle, L_genre, L_remark >>,
                     << <<"1">>, <<"a">>, <<>>, <<>>, <<>> >> >>],
        [name |-> <<"lan", "guang", "ying2", "die", "mu", "lu">>,
         rows |-> << << <<"2", "-", "1">>, <<"a">>, <<>> >>,
                     << <<"1", "-", "1", "0">>, <<"a">>, <<>> >> >>] >>]

\* The data file the application starts with.
SampleBuffers == {MalformedBuffer, LegacyBuffer}

\* public/data.xls, the copy shipped with the build.
StaticCopy == LegacyBuffer

(***************************************************************************)
(* The Electron main process (src/electron/main.cjs).  host holds its      *)
(* state: currentDataPath and settingsCache, the variables of the module;  *)
(* settingsFile, the dataPath of settings.json ("" when the file or the    *)
(* entry is missing); disk, the files at the paths the process looks at;   *)
(* readOnly and unreadable, the paths at which writeFile and readFile      *)
(* fail; reply, the value the last handler returned to the renderer.       *)
(***************************************************************************)
HostPaths ==
  {"project", "public", "executable", "resource", "appPath", "userData",
   "picked", "pickedNoWorkbook", "pickedUnreadable"}

NoFile == [exists |-> FALSE, content |-> MalformedBuffer]

NoReply ==
  [request |-> "none", ok |-> FALSE, canceled |-> FALSE, path |-> "",
   data |-> MalformedBuffer]

\* The main process before it is started, nothing on the disk.
HostAtRest ==
  [isPackaged |-> FALSE, currentDataPath |-> "",
   settingsCache |-> [loaded |-> FALSE, dataPath |-> ""],
   settingsFile |-> [dataPath |-> ""],
   disk |-> [filePath \in HostPaths |-> NoFile],
   readOnly |-> {}, unreadable |-> {}, reply |-> NoReply]

fileExists(h, filePath) == h.disk[filePath].exists

\* The directory of the path can always be made; the path is writable
\* unless writing to it fails.
pathWritable(h, filePath) == filePath \notin h.readOnly

readSettings(h) ==
  IF h.settingsCache.loaded THEN h
  ELSE [h EXCEPT !.settingsCache =
                   [loaded |-> TRUE, dataPath |-> h.settingsFile.dataPath]]

\* written says whether writeFile of settings.json succeeds.
writeSettings(h, dataPath, written) ==
  [h EXCEPT !.settingsCache = [loaded |-> TRUE, dataPath |-> dataPath],
            !.settingsFile = IF written THEN [dataPath |-> dataPath] ELSE @]

getSavedDataPath(h) == readSettings(h).settingsCache.dataPath

persistCurrentPath(h, nextPath, written) ==
  writeSettings(readSettings(h), nextPath, written)

resolvePreferredDataPath(h) ==
  IF ~h.isPackaged THEN "project"
  ELSE IF pathWritable(h, "executable") THEN "executable"
  ELSE "userData"

\* The candidates that exist, in order; a path that occurs twice is kept
\* twice, the caller takes the first that differs from the preferred path.
resolveSeedCandidates(h, preferredPath) ==
  SelectSeq(<<getSavedDataPath(h), preferredPath, "project", "public",
              "executable", "resource", "appPath", "userData">>,
            LAMBDA candidate : candidate # "" /\ fileExists(h, candidate))

\* ensureWritableDataFile: the state it leaves, whether it threw, and the
\* path it returned.
ensureWritableDataFile(h, written) ==
  LET preferredPath == resolvePreferredDataPath(h)
      read == readSettings(h)
      savedPath == getSavedDataPath(h)
      seeds == SelectSeq(resolveSeedCandidates(read, preferredPath),
                         LAMBDA item : item # preferredPath)
  IN IF h.currentDataPath # "" /\ fileExists(h, h.currentDataPath)
     THEN [host |-> h, threw |-> FALSE, path |-> h.currentDataPath]
     ELSE IF fileExists(h, preferredPath)
     THEN [host |-> persistCurrentPath(
                      [h EXCEPT !.currentDataPath = preferredPath],
                      preferredPath, written),
           threw |-> ~written, path |-> preferredPath]
     ELSE IF savedPath # "" /\ fileExists(h, savedPath)
     THEN [host |-> [read EXCEPT !.currentDataPath = savedPath],
           threw |-> FALSE, path |-> savedPath]
     ELSE IF seeds # <<>>
     THEN IF ~pathWritable(h, preferredPath)
          THEN [host |-> read, threw |-> TRUE, path |-> ""]
          ELSE [host |-> persistCurrentPath(
                           [read EXCEPT !.disk[preferredPath] =
                                          read.disk[seeds[1]],
                                        !.currentDataPath = preferredPath],
                           preferredPath, written),
                threw |-> ~written, path |-> preferredPath]
     ELSE [host |-> read, threw |-> TRUE, path |-> ""]

ErrorReply(request) == [NoReply EXCEPT !.request = request]

\* loadDataFile: readFile fails on a path that cannot be read.
loadDataFile(h, request, dataPath) ==
  IF ~fileExists(h, dataPath) \/ dataPath \in h.unreadable
  THEN ErrorReply(request)
  ELSE [request |-> request, ok |-> TRUE, canceled |-> FALSE,
        path |-> dataPath, data |-> h.disk[dataPath].content]

WrittenReply(request, dataPath, contentBuffer) ==
  [request |-> request, ok |-> TRUE, canceled |-> FALSE, path |-> dataPath,
   data |-> contentBuffer]

\* writeDataFile: the state it leaves and its reply, the error reply of
\* the handler when it threw.
writeDataFile(h, request, contentBuffer, written) ==
  LET ensured == ensureWritableDataFile(h, written)
      targetPath == ensured.path
      stored(dataPath) ==
        [ensured.host EXCEPT
           !.disk[dataPath] = [exists |-> TRUE, content |-> contentBuffer],
           !.currentDataPath = dataPath]
      persisted(dataPath) ==
        persistCurrentPath(stored(dataPath), dataPath, written)
      mirrored(next) ==
        IF ~h.isPackaged /\ pathWritable(h, "public")
        THEN [next EXCEPT !.disk["public"] =
                            [exists |-> TRUE, content |-> contentBuffer]]
        ELSE next
  IN IF ensured.threw
     THEN [ensured.host EXCEPT !.reply = ErrorReply(request)]
     ELSE IF ~pathWritable(h, targetPath)
     THEN IF targetPath # "userData" /\ pathWritable(h, "userData")
          THEN [persisted("userData") EXCEPT
                  !.reply = IF written
                            THEN WrittenReply(request, "userData",
                                              contentBuffer)
                            ELSE ErrorReply(request)]
          ELSE [ensured.host EXCEPT !.reply = ErrorReply(request)]
     ELSE IF ~written
     THEN [persisted(targetPath) EXCEPT !.reply = ErrorReply(request)]
     ELSE [mirrored(persisted(targetPath)) EXCEPT
             !.reply = WrittenReply(request, targetPath, contentBuffer)]

\* The categories the user switches to.
SwitchTargets == {"dvd", "hdd"}

\* What the user types into a field of the form.
TypedValues(categoryId, fieldKey) ==
  IF fieldKey = "serial"
  THEN (IF categoryId = "hdd" THEN {<<"x">>} ELSE {<<"1", "0">>, <<"x">>})
  ELSE IF fieldKey = "title" THEN {<<"a">>}
  ELSE {}

resetForm(nextCategory, recs) ==
  LET highestDisk == getHighestDiskName(recs["hdd"])
  IN [k \in FieldKeys(categoriesById(nextCategory)) |->
        IF nextCategory # "hdd" THEN <<>>
        ELSE IF k = "disk" THEN highestDisk
        ELSE IF k = "subtitle" THEN <<"wai", "gua">>            \* 外挂
        ELSE IF k = "genre" THEN <<"m", "k", "v">>
        ELSE IF k = "serial" THEN getNextHddSerial(recs["hdd"], highestDisk)
        ELSE <<>>]

\* The effect of lines 493-507, run after a render whose dependencies
\* (activeCategory, categoryRecords, editingId, formValues.disk,
\* isFormOpen) changed: recordsReplaced says that the action stored a new
\* array for the active category.
AutoSerialEffect(act, recs, open, eid, fv, recordsReplaced) ==
  IF /\ open
     /\ eid = NoId
     /\ \/ act # activeCategory
        \/ recordsReplaced
        \/ eid # editingId
        \/ FormDisk(fv) # FormDisk(formValues)
        \/ open # isFormOpen
  THEN [fv EXCEPT !["serial"] = computeAutoSerial(act, recs[act], fv)]
  ELSE fv

\* The first error of validateForm, "" for null.
validateForm(category, fv) ==
  LET missing == {i \in 1..Len(category.fields) :
                    category.fields[i].required
                      /\ trim(fv[category.fields[i].key]) = <<>>}
      serialValue == trim(fv["serial"])
  IN IF missing # {} THEN "required"
     ELSE IF /\ category.serialPattern # "none"
             /\ serialValue # <<>>
             /\ ~SerialPatternTest(category, serialValue)
     THEN "serialPattern"
     ELSE ""

\* crypto.randomUUID(): an id no record has yet.
createRecordId == <<"uuid", mutations + 1>>

\* A chain that waits for nothing: the callback runs at once.
ChainNeverWaits == TRUE

\* The then-callback of enqueueAutoSave runs once the promise the chain
\* held before it has settled.
ChainSettled == \A job \in saving : ~job.auto

\* A then-callback of the auto-save chain is due: it runs before any other
\* event is handled.
AutoSaveDue == autoSaveQueue # <<>> /\ ChainSettled

Events == mutations + (loadsStarted - 1) + manualSaves

\* An auto-save that serialises the records of the last render instead
\* of the value it is given.
enqueueRenderedRecords(nextRecords) ==
  /\ autoSaveQueue' =
       Append(autoSaveQueue, [seq |-> mutations + 1, snapshot |-> records])
  /\ mutations' = mutations + 1

enqueueAutoSave(nextRecords) ==
  /\ autoSaveQueue' =
       Append(autoSaveQueue, [seq |-> mutations + 1, snapshot |-> nextRecords])
  /\ mutations' = mutations + 1

Init ==
  /\ records = createEmptyRecords
  /\ activeCategory = DEFAULT_CATEGORY
  /\ isFormOpen = FALSE
  /\ editingId = NoId
  /\ formValues = resetForm(DEFAULT_CATEGORY, createEmptyRecords)
  /\ errorMessage = ""
  /\ isSaving = FALSE
  /\ autoSaveQueue = <<>>
  /\ saving = {}
  /\ loads = <<"default">>
  /\ file \in SampleBuffers
  /\ now = 0
  /\ mutations = 0
  /\ loadsStarted = 1
  /\ manualSaves = 0
  /\ autoStarted = <<>>
  /\ autoSettled = <<>>
  /\ searchValue = <<>>
  /\ host = HostAtRest
  /\ argument = NoArgument
  /\ result = NoResult

handleCategorySwitch(nextCategory) ==
  /\ ~AutoSaveDue
  /\ activeCategory' = nextCategory
  /\ isFormOpen' = FALSE
  /\ editingId' = NoId
  /\ formValues' = resetForm(nextCategory, records)
  /\ searchValue' = <<>>
  /\ UNCHANGED <<argument, result, host>>
  /\ UNCHANGED <<records, errorMessage, isSaving, autoSaveQueue, saving,
                 loads, file, now, mutations, loadsStarted, manualSaves,
                 autoStarted, autoSettled>>

openCreateForm ==
  /\ ~AutoSaveDue
  /\ editingId' = NoId
  /\ isFormOpen' = TRUE
  /\ formValues' =
       AutoSerialEffect(activeCategory, records, TRUE, NoId,
                        resetForm(activeCategory, records), FALSE)
  /\ UNCHANGED <<searchValue, argument, result, host>>
  /\ UNCHANGED <<records, activeCategory, errorMessage, isSaving,
                 autoSaveQueue, saving, loads, file, now, mutations,
                 loadsStarted, manualSaves, autoStarted, autoSettled>>

openEditForm(record) ==
  /\ ~AutoSaveDue
  /\ formValues' =
       [k \in FieldKeys(categoriesById(activeCategory)) |-> record[k]]
  /\ editingId' = record.id
  /\ isFormOpen' = TRUE
  /\ UNCHANGED <<searchValue, argument, result, host>>
  /\ UNCHANGED <<records, activeCategory, errorMessage, isSaving,
                 autoSaveQueue, saving, loads, file, now, mutations,
                 loadsStarted, manualSaves, autoStarted, autoSettled>>

handleFieldChange(fieldKey, nextValue) ==
  /\ ~AutoSaveDue
  /\ isFormOpen
  /\ IF fieldKey = "serial" /\ editingId = NoId
     THEN UNCHANGED formValues
     ELSE formValues' =
            AutoSerialEffect(activeCategory, records, isFormOpen, editingId,
                             [formValues EXCEPT ![fieldKey] = nextValue],
                             FALSE)
  /\ UNCHANGED <<searchValue, argument, result, host>>
  /\ UNCHANGED <<records, activeCategory, isFormOpen, editingId, errorMessage,
                 isSaving, autoSaveQueue, saving, loads, file, now, mutations,
                 loadsStarted, manualSaves, autoStarted, autoSettled>>

cancelForm ==
  /\ ~AutoSaveDue
  /\ isFormOpen
  /\ isFormOpen' = FALSE
  /\ editingId' = NoId
  /\ formValues' = resetForm(activeCategory, records)
  /\ UNCHANGED <<searchValue, argument, result, host>>
  /\ UNCHANGED <<records, activeCategory, errorMessage, isSaving,
                 autoSaveQueue, saving, loads, file, now, mutations,
                 loadsStarted, manualSaves, autoStarted, autoSettled>>

\* The record handleSubmit builds from the form.
SubmittedRecord ==
  MakeRecord(categoriesById(activeCategory),
             IF editingId # NoId THEN editingId ELSE createRecordId,
             LAMBDA k : trim(formValues[k]))

\* A submission that is added to the records also when it is an update.
SubmittedAppended(nextRecord) == Append(records[activeCategory], nextRecord)

\* nextCategoryRecords of handleSubmit.
SubmittedCategoryRecords(nextRecord) ==
  IF editingId # NoId
  THEN [i \in 1..Len(records[activeCategory]) |->
          IF records[activeCategory][i].id = editingId THEN nextRecord
          ELSE records[activeCategory][i]]
  ELSE Append(records[activeCategory], nextRecord)

handleSubmit ==
  /\ ~AutoSaveDue
  /\ isFormOpen
  /\ \E validationError \in
         {validateForm(categoriesById(activeCategory), formValues)} :
       IF validationError # ""
       THEN /\ errorMessage' = validationError
            /\ UNCHANGED <<records, isFormOpen, editingId, formValues,
                           autoSaveQueue, mutations>>
       ELSE \E nextRecord \in {SubmittedRecord} :
            \E nextAllRecords \in
                {[records EXCEPT ![activeCategory] =
                    sortCategoryRecords(activeCategory,
                      SubmittedCategoryRecords(nextRecord))]} :
              /\ Events < MaxEvents
              /\ records' = nextAllRecords
              /\ errorMessage' = ""
              /\ enqueueAutoSave(nextAllRecords)
              /\ IF editingId # NoId
                 THEN /\ isFormOpen' = FALSE
                      /\ editingId' = NoId
                      /\ formValues' = resetForm(activeCategory, records)
                 ELSE /\ formValues' =
                           AutoSerialEffect(
                             activeCategory, nextAllRecords, isFormOpen,
                             editingId,
                             [k \in DOMAIN formValues |-> nextRecord[k]],
                             TRUE)
                      /\ UNCHANGED <<isFormOpen, editingId>>
  /\ UNCHANGED <<searchValue, argument, result, host>>
  /\ UNCHANGED <<activeCategory, isSaving, saving, loads, file, now,
                 loadsStarted, manualSaves, autoStarted, autoSettled>>

handleDelete(record, confirmed) ==
  /\ ~AutoSaveDue
  /\ IF ~confirmed
     THEN UNCHANGED <<records, formValues, autoSaveQueue, mutations>>
     ELSE \E nextAllRecords \in
              {[records EXCEPT ![activeCategory] =
                  sortCategoryRecords(activeCategory,
                    SelectSeq(records[activeCategory],
                              LAMBDA current : current.id # record.id))]} :
            /\ Events < MaxEvents
            /\ records' = nextAllRecords
            /\ enqueueAutoSave(nextAllRecords)
            /\ formValues' =
                 AutoSerialEffect(activeCategory, nextAllRecords, isFormOpen,
                                  editingId, formValues, TRUE)
  /\ UNCHANGED <<searchValue, argument, result, host>>
  /\ UNCHANGED <<activeCategory, isFormOpen, editingId, errorMessage,
                 isSaving, saving, loads, file, now, loadsStarted,
                 manualSaves, autoStarted, autoSettled>>

\* persistRecords up to its first await: the snapshot is serialised and
\* the write handed to the storage collaborator.
persistRecords(nextRecords, auto, seq) ==
  /\ errorMessage' = ""
  /\ saving' = saving \cup {[auto |-> auto, seq |-> seq,
                             blob |-> createWorkbookBlob(nextRecords)]}

handleSave ==
  /\ ~AutoSaveDue
  /\ ~isSaving
  /\ Events < MaxEvents
  /\ manualSaves' = manualSaves + 1
  /\ isSaving' = TRUE
  /\ persistRecords(records, FALSE, 0)
  /\ UNCHANGED <<searchValue, argument, result, host>>
  /\ UNCHANGED <<records, activeCategory, isFormOpen, editingId, formValues,
                 autoSaveQueue, loads, file, now, mutations, loadsStarted,
                 autoStarted, autoSettled>>

AutoSaveStart ==
  /\ autoSaveQueue # <<>>
  /\ ChainSettled
  /\ persistRecords(Head(autoSaveQueue).snapshot, TRUE,
                    Head(autoSaveQueue).seq)
  /\ autoSaveQueue' = Tail(autoSaveQueue)
  /\ autoStarted' = Append(autoStarted, Head(autoSaveQueue).seq)
  /\ UNCHANGED <<searchValue, argument, result, host>>
  /\ UNCHANGED <<records, activeCategory, isFormOpen, editingId, formValues,
                 isSaving, loads, file, now, mutations, loadsStarted,
                 manualSaves, autoSettled>>

\* The storage collaborator answers a write: written says whether the
\* blob reached the data file.
SaveSettle(job, written) ==
  /\ ~AutoSaveDue
  /\ job \in saving
  /\ saving' = saving \ {job}
  /\ file' = IF written THEN job.blob ELSE file
  /\ errorMessage' = IF written THEN errorMessage ELSE "save"
  /\ isSaving' = IF job.auto THEN isSaving ELSE FALSE
  /\ autoSettled' = IF job.auto THEN Append(autoSettled, job.seq)
                    ELSE autoSettled
  /\ UNCHANGED <<searchValue, argument, result, host>>
  /\ UNCHANGED <<records, activeCategory, isFormOpen, editingId, formValues,
                 autoSaveQueue, loads, now, mutations, loadsStarted,
                 manualSaves, autoStarted>>

\* loadDefaultFile ("default") or handlePickFile ("pick") up to its first
\* await.
LoadStart(kind) ==
  /\ ~AutoSaveDue
  /\ Events < MaxEvents
  /\ loadsStarted' = loadsStarted + 1
  /\ loads' = Append(loads, kind)
  /\ UNCHANGED <<searchValue, argument, result, host>>
  /\ UNCHANGED <<records, activeCategory, isFormOpen, editingId, formValues,
                 errorMessage, isSaving, autoSaveQueue, saving, file, now,
                 mutations, manualSaves, autoStarted, autoSettled>>

RemoveAt(seq, i) == SubSeq(seq, 1, i - 1) \o SubSeq(seq, i + 1, Len(seq))

\* A load whose catch clause falls back to empty records.
loadOrEmpty(buffer) ==
  /\ now' = now + 1
  /\ \E parsed \in {IF buffer.ok THEN parseWorkbook(buffer, now)
                    ELSE createEmptyRecords} :
       /\ records' = parsed
       /\ errorMessage' = IF buffer.ok THEN "" ELSE "load"
       /\ formValues' =
            AutoSerialEffect(activeCategory, parsed, isFormOpen,
                             editingId, formValues, TRUE)

\* loadFromArrayBuffer: parseWorkbook throws on a buffer XLSX.read cannot
\* open, and the catch clause sets the error message.  The ids of the
\* parsed records carry Date.now(); the clock has moved on by the next
\* load.
loadFromArrayBuffer(buffer) ==
  /\ now' = now + 1
  /\ IF buffer.ok
     THEN \E parsed \in {parseWorkbook(buffer, now)} :
            /\ records' = parsed
            /\ errorMessage' = ""
            /\ formValues' =
                 AutoSerialEffect(activeCategory, parsed, isFormOpen,
                                  editingId, formValues, TRUE)
     ELSE /\ errorMessage' = "load"
          /\ UNCHANGED <<records, formValues>>

\* The rest of loadDefaultFile, once the storage collaborator has
\* answered: with the data file (the Electron bridge, the API: "data"),
\* with the static copy public/data.xls ("static"), or with nothing
\* ("none"), and then the records are emptied.
DefaultLoadSettle(i, outcome, buffer) ==
  /\ ~AutoSaveDue
  /\ i \in 1..Len(loads) /\ loads[i] = "default"
  /\ loads' = RemoveAt(loads, i)
  /\ IF outcome = "none"
     THEN /\ records' = createEmptyRecords
          /\ errorMessage' = "loadEmpty"
          /\ formValues' =
               AutoSerialEffect(activeCategory, createEmptyRecords,
                                isFormOpen, editingId, formValues, TRUE)
          /\ UNCHANGED now
     ELSE loadFromArrayBuffer(buffer)
  /\ UNCHANGED <<searchValue, argument, result, host>>
  /\ UNCHANGED <<activeCategory, isFormOpen, editingId, isSaving,
                 autoSaveQueue, saving, file, mutations, loadsStarted,
                 manualSaves, autoStarted, autoSettled>>

\* The rest of handlePickFile, once the picker has answered: cancelled,
\* failed, or with the picked file; in Electron the picked file becomes
\* the data file.
PickSettle(i, outcome, picked, electron) ==
  /\ ~AutoSaveDue
  /\ i \in 1..Len(loads) /\ loads[i] = "pick"
  /\ loads' = RemoveAt(loads, i)
  /\ IF outcome = "picked"
     THEN /\ loadFromArrayBuffer(picked)
          /\ file' = IF electron THEN picked ELSE file
     ELSE /\ errorMessage' = IF outcome = "error" THEN "pick"
                             ELSE errorMessage
          /\ UNCHANGED <<records, formValues, file, now>>
  /\ UNCHANGED <<searchValue, argument, result, host>>
  /\ UNCHANGED <<activeCategory, isFormOpen, editingId, isSaving,
                 autoSaveQueue, saving, mutations, loadsStarted, manualSaves,
                 autoStarted, autoSettled>>

Next ==
  \/ \E c \in SwitchTargets : handleCategorySwitch(c)
  \/ openCreateForm
  \/ \E i \in 1..Len(records[activeCategory]) :
       openEditForm(records[activeCategory][i])
  \/ \E k \in FieldKeys(categoriesById(activeCategory)) :
       \E v \in TypedValues(activeCategory, k) : handleFieldChange(k, v)
  \/ cancelForm
  \/ handleSubmit
  \/ \E i \in 1..Len(records[activeCategory]) :
       \E confirmed \in BOOLEAN :
         handleDelete(records[activeCategory][i], confirmed)
  \/ handleSave
  \/ AutoSaveStart
  \/ \E job \in saving : \E written \in BOOLEAN : SaveSettle(job, written)
  \/ \E kind \in {"default", "pick"} : LoadStart(kind)
  \/ \E i \in 1..Len(loads) : \E outcome \in {"data", "static", "none"} :
       \E buffer \in (IF outcome = "data" THEN {file}
                      ELSE IF outcome = "static" THEN {StaticCopy}
                      ELSE {MalformedBuffer}) :
         DefaultLoadSettle(i, outcome, buffer)
  \/ \E i \in 1..Len(loads) : \E outcome \in {"picked", "cancel", "error"} :
       \E picked \in (IF outcome = "picked" THEN SampleBuffers
                      ELSE {MalformedBuffer}) :
         \E electron \in (IF outcome = "picked" THEN BOOLEAN ELSE {FALSE}) :
           PickSettle(i, outcome, picked, electron)

Spec == Init /\ [][Next]_vars

(***************************************************************************)
(* Properties of the application                                           *)
(***************************************************************************)

\* The sequence is in the canonical order of its category: no record is
\* followed by one the comparator puts before it.
InCanonicalOrder(categoryId, recordList) ==
  \A i \in 1..(Len(recordList) - 1) :
    CategoryCompare(categoryId, recordList[i], recordList[i + 1]) <= 0

\* C1: after any sequence of loads and of create, update and delete
\* operations, the records of every category are sorted by the comparator
\* of that category (each adjacent pair compares <= 0).
C1_RecordsSorted ==
  \A c \in CategoryIds : InCanonicalOrder(c, records[c])

\* An edit moved a loaded DVD record to the end of its category: the record
\* that now carries serial 10 comes after the records 1 and 2 it was loaded
\* between.
C1_Witness ==
  /\ mutations >= 1
  /\ Len(records["dvd"]) = 2
  /\ records["dvd"][2].serial = <<"1", "0">>
  /\ records["dvd"][2].id[1] # "uuid"
  /\ records["dvd"][1].serial = <<"2">>

\* The validity the data model asks of a record of the category.
IsValidRecord(categoryId, record) ==
  /\ record.title # <<>>
  /\ IF categoryId = "bluray" THEN MatchesRange(record.serial)
     ELSE MatchesInteger(record.serial)
  /\ categoryId = "hdd" => record.disk # <<>>

\* C2: every record held in memory is valid for its category: an integer
\* serial for dvd and collectorBluray, int-int for bluray, a disk and an
\* integer serial for hdd, and a title everywhere.
C2_RecordsValid ==
  \A c \in CategoryIds :
    \A i \in 1..Len(records[c]) : IsValidRecord(c, records[c][i])

\* C4: at most one write of the data file is in flight, automatic or
\* manual.
C4_OneWriteInFlight == Cardinality(saving) <= 1

\* The step of AutoSaveStart, told by what it does to autoStarted: it is
\* enabled when AutoSaveStart is, and no other step extends autoStarted.
AutoSaveRuns ==
  /\ autoSaveQueue # <<>>
  /\ ChainSettled
  /\ autoStarted' = Append(autoStarted, Head(autoSaveQueue).seq)

\* The step of SaveSettle for an auto-save, told by what it does to
\* autoSettled.
AutoSaveSettles ==
  /\ ~AutoSaveDue
  /\ \E job \in saving :
       job.auto /\ autoSettled' = Append(autoSettled, job.seq)

\* A callback of the chain that is due runs, and every storage call of an
\* auto-save settles.
FairSpec ==
  Spec /\ WF_autoStarted(AutoSaveRuns) /\ WF_autoSettled(AutoSaveSettles)

\* The auto-saves started and settled so far are the first ones enqueued,
\* in order, and the last one started is the only one that may not have
\* settled.
AutoSavesInOrder ==
  /\ autoStarted = [k \in 1..Len(autoStarted) |-> k]
  /\ autoSettled = [k \in 1..Len(autoSettled) |-> k]
  /\ Len(autoStarted) - Len(autoSettled) \in {0, 1}

\* C5: auto-saves start in the order of the mutations, the k-th only after
\* the one before it has settled, written or failed; and the auto-save of
\* every mutation is eventually started, given that storage calls settle.
C5_AutoSaveFifo ==
  /\ []AutoSavesInOrder
  /\ \A k \in 1..MaxEvents : (mutations >= k) ~> (Len(autoStarted) >= k)

\* The second auto-save is in flight after the first one failed: nothing
\* has been written to the data file.
C5_Witness ==
  /\ autoStarted = <<1, 2>>
  /\ autoSettled = <<1>>
  /\ manualSaves = 0
  /\ file \in SampleBuffers
  /\ errorMessage = ""

\* C6: a create, update or delete that changes the records enqueues one
\* auto-save, and its snapshot is the records as that step leaves them;
\* the auto-save that starts serialises the snapshot at the head of the
\* queue.
C6_MutationEnqueuesSnapshot ==
  [][/\ (records' # records /\ loads' = loads)
          => /\ mutations' = mutations + 1
             /\ autoSaveQueue' =
                  Append(autoSaveQueue,
                         [seq |-> mutations', snapshot |-> records'])
     /\ (autoStarted' # autoStarted)
          => \E job \in saving' \ saving :
               /\ job.auto /\ job.seq = Head(autoSaveQueue).seq
               /\ job.blob = createWorkbookBlob(Head(autoSaveQueue).snapshot)
    ]_vars

\* The second mutation has just been queued behind the auto-save of the
\* first, which is in flight.
C6_Witness ==
  /\ mutations = 2
  /\ Len(autoSaveQueue) = 1
  /\ autoSaveQueue[1].seq = 2
  /\ autoSaveQueue[1].snapshot = records
  /\ \E job \in saving : job.auto /\ job.seq = 1

\* A load is answered with a buffer that is no workbook: the data file on
\* the default path, the picked file in the Electron and in the browser
\* variant.
UnreadableLoad ==
  \E i \in 1..Len(loads) :
    \/ \E outcome \in {"data", "static"} :
         \E buffer \in {file, StaticCopy} :
           ~buffer.ok /\ DefaultLoadSettle(i, outcome, buffer)
    \/ \E picked \in SampleBuffers : \E electron \in BOOLEAN :
         ~picked.ok /\ PickSettle(i, "picked", picked, electron)

\* C7: a load whose buffer cannot be parsed leaves the records as they
\* were, on the default path and on both pick paths, and sets the error
\* message.
C7_UnreadableLoadKeepsRecords ==
  [][UnreadableLoad => (records' = records /\ errorMessage' = "load")]_vars

\* Records were loaded, then a file that is no workbook was picked in
\* Electron: the records are still there, the error message is set.
C7_Witness ==
  /\ errorMessage = "load"
  /\ records["dvd"] # <<>>
  /\ ~file.ok
  /\ loads = <<>>

\* The form has every required field and a serial of the format of the
\* active category.
FormIsValid ==
  /\ \A i \in 1..Len(categoriesById(activeCategory).fields) :
       categoriesById(activeCategory).fields[i].required
         => trim(formValues[categoriesById(activeCategory).fields[i].key])
              # <<>>
  /\ IF activeCategory = "bluray" THEN MatchesRange(trim(formValues["serial"]))
     ELSE MatchesInteger(trim(formValues["serial"]))

\* C8: a submission with an empty required field or with a serial that is
\* not of the category's format is rejected: the records stay, no
\* auto-save is enqueued, an error message is set.
C8_InvalidSubmissionRejected ==
  [][(handleSubmit /\ ~FormIsValid)
       => /\ records' = records
          /\ autoSaveQueue' = autoSaveQueue
          /\ errorMessage' # ""]_vars

(***************************************************************************)
(* The writer and the reader on their own (src/src/xls.ts 516-587): the    *)
(* specification SpecXls gives createWorkbookBlob and parseWorkbook        *)
(* records and workbooks no form could have produced.  records holds the   *)
(* CategoryRecords handed to the writer, file the workbook handed to the   *)
(* reader.                                                                 *)
(***************************************************************************)
MaxDiscCandidates == 2
MaxHddCandidates == 1

SeqsUpTo(S, n) == UNION {[1..k -> S] : k \in 0..n}

DiskOne == <<"ying", "pan", "yi">>                      \* 硬盘一

DiscCandidate(serial, title) ==
  [id |-> <<"in">>, serial |-> serial, title |-> title, remark |-> <<>>]

HddCandidate(disk, serial, title) ==
  [id |-> <<"in">>, disk |-> disk, serial |-> serial, title |-> title,
   subtitle |-> <<>>, genre |-> <<>>, remark |-> <<>>]

DvdPool ==
  {DiscCandidate(<<"2">>, <<"a">>), DiscCandidate(<<"1">>, <<"a">>),
   DiscCandidate(<<"x">>, <<"a">>), DiscCandidate(<<>>, <<"a">>),
   DiscCandidate(<<"1">>, <<>>)}

BlurayPool ==
  {DiscCandidate(<<"1", "-", "2">>, <<"a">>), DiscCandidate(<<"1">>, <<"a">>)}

HddPool ==
  {HddCandidate(DiskOne, <<"1">>, <<"a">>), HddCandidate(DiskOne, <<"x">>, <<"a">>),
   HddCandidate(DiskOne, <<"1">>, <<>>), HddCandidate(<<>>, <<"1">>, <<"a">>)}

SampleRecords ==
  {[c \in CategoryIds |->
      IF c = "dvd" THEN dvd ELSE IF c = "bluray" THEN bluray
      ELSE IF c = "hdd" THEN hdd ELSE <<>>] :
     dvd \in SeqsUpTo(DvdPool, MaxDiscCandidates),
     bluray \in SeqsUpTo(BlurayPool, 1),
     hdd \in SeqsUpTo(HddPool, MaxHddCandidates)}

\* The cells of a candidate, in the declared order of the fields.
CandidateCells(category, record) ==
  [i \in 1..Len(category.fields) |-> record[category.fields[i].key]]

\* Block layout of a disc sheet: no header row, the candidates side by
\* side in one row.
DiscBlockLayout(category, candidates) ==
  IF candidates = <<>> THEN <<>>
  ELSE << Flatten([i \in 1..Len(candidates) |->
                     CandidateCells(category, candidates[i])]) >>

\* Flat layout of a disc sheet as a user keeps it: the title column first,
\* the columns headed by aliases of the labels.
DiscFlatLayout(category, candidates) ==
  << << <<"pian", "ming">>, <<"bian", "hao">>, L_remark >> >>
    \o [i \in 1..Len(candidates) |->
          << candidates[i].title, candidates[i].serial, candidates[i].remark >>]

HddFlatLayout(category, candidates) ==
  << HeaderLabels(category) >>
    \o [i \in 1..Len(candidates) |-> CandidateCells(category, candidates[i])]

HddGroupCells(record) ==
  << record.serial, record.title, record.subtitle, record.genre, record.remark >>

\* Disk-block layout of the hard-disk sheet: the repeated header row, the
\* rows that stand under no disk heading, then the heading of the disk and
\* the rows of that disk.
HddDiskBlockLayout(category, candidates) ==
  LET header == << L_serial, L_hddTitle, L_subtitle, L_genre, L_remark >>
      under(disk) ==
        LET own == SelectSeq(candidates, LAMBDA record : record.disk = disk)
        IN [i \in 1..Len(own) |-> HddGroupCells(own[i])]
  IN << header \o header >>
       \o under(<<>>)
       \o << << DiskOne \o <<"LPFW", "2", "t">> >> >>
       \o under(DiskOne)

DiscLayouts == {"block", "flat"}
HddLayouts == {"diskBlock", "flat"}

BuildWorkbook(discLayout, hddLayout, candidates) ==
  [ok |-> TRUE,
   sheets |->
     [i \in 1..Len(categories) |->
        [name |-> categories[i].sheetName,
         rows |->
           IF categories[i].id = "hdd"
           THEN (IF hddLayout = "flat"
                 THEN HddFlatLayout(categories[i], candidates["hdd"])
                 ELSE HddDiskBlockLayout(categories[i], candidates["hdd"]))
           ELSE (IF discLayout = "flat"
                 THEN DiscFlatLayout(categories[i], candidates[categories[i].id])
                 ELSE DiscBlockLayout(categories[i],
                                      candidates[categories[i].id]))]]]

XlsInit ==
  /\ records \in SampleRecords
  /\ file \in {BuildWorkbook(discLayout, hddLayout, records) :
                 discLayout \in DiscLayouts, hddLayout \in HddLayouts}
  /\ activeCategory = DEFAULT_CATEGORY
  /\ isFormOpen = FALSE
  /\ editingId = NoId
  /\ formValues = resetForm(DEFAULT_CATEGORY, createEmptyRecords)
  /\ errorMessage = ""
  /\ isSaving = FALSE
  /\ autoSaveQueue = <<>>
  /\ saving = {}
  /\ loads = <<>>
  /\ now = 0
  /\ mutations = 0
  /\ loadsStarted = 0
  /\ manualSaves = 0
  /\ autoStarted = <<>>
  /\ autoSettled = <<>>
  /\ searchValue = <<>>
  /\ host = HostAtRest
  /\ argument = NoArgument
  /\ result = NoResult

\* createWorkbookBlob(records), the result kept as the workbook.
WriteWorkbook ==
  /\ file' = createWorkbookBlob(records)
  /\ UNCHANGED <<searchValue, argument, result, host>>
  /\ UNCHANGED <<records, activeCategory, isFormOpen, editingId, formValues,
                 errorMessage, isSaving, autoSaveQueue, saving, loads, now,
                 mutations, loadsStarted, manualSaves, autoStarted,
                 autoSettled>>

\* parseWorkbook(file), the result kept as the records.
ReadWorkbook ==
  /\ file.ok
  /\ records' = parseWorkbook(file, now)
  /\ UNCHANGED <<searchValue, argument, result, host>>
  /\ UNCHANGED <<activeCategory, isFormOpen, editingId, formValues,
                 errorMessage, isSaving, autoSaveQueue, saving, loads, file,
                 now, mutations, loadsStarted, manualSaves, autoStarted,
                 autoSettled>>

XlsNext == WriteWorkbook \/ ReadWorkbook

SpecXls == XlsInit /\ [][XlsNext]_vars

(***************************************************************************)
(* Properties of the writer and the reader                                 *)
(***************************************************************************)

\* The records without their identifiers.
StripIds(recordList) ==
  [i \in 1..Len(recordList) |->
     [k \in (DOMAIN recordList[i]) \ {"id"} |-> recordList[i][k]]]

Occurrences(seq, e) == Cardinality({i \in 1..Len(seq) : seq[i] = e})

\* The two sequences hold the same elements the same number of times.
SameElements(left, right) ==
  /\ Len(left) = Len(right)
  /\ \A i \in 1..Len(left) :
       Occurrences(left, left[i]) = Occurrences(right, left[i])

\* parseWorkbook of the written workbook gives, category by category, the
\* sorted records back.
RoundTrips(input, parsed) ==
  \A c \in CategoryIds :
    StripIds(parsed[c]) = StripIds(sortCategoryRecords(c, input[c]))

\* C3: for the records the application holds, always in canonical order,
\* parseWorkbook(createWorkbook(records)) has in every category the records
\* of sortCategoryRecords(records), identifiers aside.
C3_RoundTrip ==
  C1_RecordsSorted =>
    RoundTrips(records, parseWorkbook(createWorkbookBlob(records), now))

\* The row of a sheet read as a record of the category.
RowAsRecord(category, row) ==
  [k \in FieldKeys(category) |-> row[FieldIndex(category, k)]]

\* The sheets the claim describes for the input: four, under the four
\* names, each the labels of its category and then the records of the
\* category, one row each, in sort order.
WorkbookAsDescribed(input, sheets) ==
  /\ Len(sheets) = 4
  /\ [i \in 1..4 |-> sheets[i].name]
       = << <<"D", "V", "D", "mu", "lu">>,
            <<"lan", "guang", "ying2", "die", "mu", "lu">>,
            <<"jing", "zhuang", "lan", "guang", "ying2", "die", "mu", "lu">>,
            <<"ying", "pan", "dian", "ying2", "mu", "lu">> >>
  /\ [i \in 1..4 |-> categories[i].id]
       = <<"dvd", "bluray", "collectorBluray", "hdd">>
  /\ \A i \in 1..4 :
       LET category == categories[i]
           rows == sheets[i].rows
           written == [n \in 1..(Len(rows) - 1) |->
                         RowAsRecord(category, rows[n + 1])]
       IN /\ Len(rows) = Len(input[category.id]) + 1
          /\ rows[1] = IF category.id = "hdd"
                       THEN <<L_disk, L_serial, L_hddTitle, L_subtitle,
                              L_genre, L_remark>>
                       ELSE <<L_serial, L_discTitle, L_remark>>
          /\ InCanonicalOrder(category.id, written)
          /\ SameElements(written, StripIds(input[category.id]))

\* C9: createWorkbook gives four sheets under the four sheet names in the
\* declared order, each with the header row of the field labels and one
\* row per record in the sort order of the category; a category without
\* records gives the header row alone.
C9_WorkbookShape ==
  [][WriteWorkbook => WorkbookAsDescribed(records, file'.sheets)]_vars

\* A workbook written from DVD records given out of order and from no
\* Blu-ray record.
C9_Witness ==
  /\ file = createWorkbookBlob(records)
  /\ Len(records["dvd"]) = 2
  /\ ~InCanonicalOrder("dvd", records["dvd"])
  /\ records["bluray"] = <<>>
  /\ Len(file.sheets[2].rows) = 1

\* C10: whatever layout the sheet has, the records parseWorkbook returns
\* for a category are exactly the candidates of its sheet that are valid:
\* serial and title non-empty and the serial of the category's format, and
\* for hdd a non-empty disk.
C10_KeptIffValid ==
  [][\A discLayout \in DiscLayouts, hddLayout \in HddLayouts :
       (ReadWorkbook /\ file = BuildWorkbook(discLayout, hddLayout, records))
         => \A c \in CategoryIds :
              SameElements(StripIds(records'[c]),
                           StripIds(SelectSeq(records[c],
                                      LAMBDA r : IsValidRecord(c, r))))]_vars

\* The block layout held two DVD candidates side by side and one of them
\* came through.
C10_Witness ==
  /\ file.ok
  /\ Len(file.sheets[1].rows) = 1
  /\ Len(file.sheets[1].rows[1]) = 6
  /\ file.sheets[1].rows[1][1] = <<"x">>
  /\ Len(records["dvd"]) = 1
  /\ records["dvd"][1].id[1] = "dvd"

(***************************************************************************)
(* The sort on its own (src/src/xls.ts 208-321): the specification         *)
(* SpecSort hands sortCategoryRecords lists in every order, with serials   *)
(* and disks that do not parse and with records that tie.                  *)
(***************************************************************************)
MaxSortLength == 4

\* The application before its mount, with nothing to do.
AppAtRest ==
  /\ records = createEmptyRecords
  /\ activeCategory = DEFAULT_CATEGORY
  /\ isFormOpen = FALSE
  /\ editingId = NoId
  /\ formValues = resetForm(DEFAULT_CATEGORY, createEmptyRecords)
  /\ errorMessage = ""
  /\ isSaving = FALSE
  /\ autoSaveQueue = <<>>
  /\ saving = {}
  /\ loads = <<>>
  /\ file = MalformedBuffer
  /\ now = 0
  /\ mutations = 0
  /\ loadsStarted = 0
  /\ manualSaves = 0
  /\ autoStarted = <<>>
  /\ autoSettled = <<>>
  /\ searchValue = <<>>
  /\ host = HostAtRest

DiscRecord(serial, title, remark) ==
  [id |-> <<"in">>, serial |-> serial, title |-> title, remark |-> remark]

HddRecord(disk, serial, title, remark) ==
  [id |-> <<"in">>, disk |-> disk, serial |-> serial, title |-> title,
   subtitle |-> <<>>, genre |-> <<>>, remark |-> remark]

DiskTwo == <<"ying", "pan", "er">>                      \* 硬盘二
DiskTen == <<"ying", "pan", "1", "0">>                  \* 硬盘10

IntegerSortPool ==
  {DiscRecord(<<"1", "0">>, <<"a">>, <<>>), DiscRecord(<<"2">>, <<"a">>, <<>>),
   DiscRecord(<<"a", "b", "c">>, <<"a">>, <<>>),
   DiscRecord(<<"1">>, <<"a">>, <<>>), DiscRecord(<<"1">>, <<"b">>, <<>>),
   DiscRecord(<<"1">>, <<"a">>, <<"r">>),
   DiscRecord(<<"1", "-", "2">>, <<"a">>, <<>>)}

BluraySortPool ==
  {DiscRecord(<<"2", "-", "3">>, <<"a">>, <<>>),
   DiscRecord(<<"1", "-", "1", "0">>, <<"a">>, <<>>),
   DiscRecord(<<"2", "-", "1">>, <<"a">>, <<>>),
   DiscRecord(<<"2", "-", "1">>, <<"b">>, <<>>),
   DiscRecord(<<"1">>, <<"a">>, <<>>),
   DiscRecord(<<"2", "-", "1">>, <<"a">>, <<"r">>)}

HddSortPool ==
  {HddRecord(DiskTwo, <<"1">>, <<"a">>, <<>>),
   HddRecord(DiskTen, <<"1">>, <<"a">>, <<>>),
   HddRecord(DiskOne, <<"1">>, <<"a">>, <<>>),
   HddRecord(DiskOne, <<"1", "0">>, <<"a">>, <<>>),
   HddRecord(DiskOne, <<"2", "x">>, <<"a">>, <<>>),
   HddRecord(DiskOne, <<"x">>, <<"a">>, <<>>),
   HddRecord(<<"a">>, <<"1">>, <<"a">>, <<>>),
   HddRecord(<<"1">>, <<"1">>, <<"a">>, <<>>),
   HddRecord(DiskOne, <<"1">>, <<"b">>, <<>>),
   HddRecord(DiskOne, <<"1">>, <<"a">>, <<"r">>)}

SortPool(categoryId) ==
  IF categoryId = "hdd" THEN HddSortPool
  ELSE IF categoryId = "bluray" THEN BluraySortPool
  ELSE IntegerSortPool

SortInit ==
  /\ AppAtRest
  /\ \E categoryId \in CategoryIds :
       \E recordList \in SeqsUpTo(SortPool(categoryId), MaxSortLength) :
         argument = [fn |-> "sortCategoryRecords", categoryId |-> categoryId,
                     records |-> recordList]
  /\ result = NoResult

\* sortCategoryRecords(categoryId, records), the result kept.
ApplySort ==
  /\ argument.fn = "sortCategoryRecords"
  /\ result' = [fn |-> "sortCategoryRecords",
                value |-> sortCategoryRecords(argument.categoryId,
                                              argument.records)]
  /\ UNCHANGED <<records, activeCategory, isFormOpen, editingId, formValues,
                 errorMessage, isSaving, autoSaveQueue, saving, loads, file,
                 now, mutations, loadsStarted, manualSaves, autoStarted,
                 autoSettled, searchValue, argument, host>>

SortNext == ApplySort

SpecSort == SortInit /\ [][SortNext]_vars

(***************************************************************************)
(* Properties of the sort                                                  *)
(***************************************************************************)
SerialsOf(recordList) == [i \in 1..Len(recordList) |-> recordList[i].serial]

DisksOf(recordList) == [i \in 1..Len(recordList) |-> recordList[i].disk]

\* The step sorts a list of the category.
SortsCategory(categoryIds) ==
  ApplySort /\ argument.categoryId \in categoryIds

\* Serial text, then title text, as the last criteria of every comparator.
TextsInOrder(left, right) ==
  /\ compareText(left.serial, right.serial) <= 0
  /\ compareText(left.serial, right.serial) = 0
       => compareText(left.title, right.title) <= 0

\* The output holds the input records, those with an integer serial first
\* and ascending by value, the others after them, and serial text and
\* title text decide where the numbers do not.
IntegerOrderAsDescribed(input, out) ==
  /\ SameElements(out, input)
  /\ \A i, j \in 1..Len(out) :
       i < j =>
         /\ MatchesInteger(out[j].serial)
              => /\ MatchesInteger(out[i].serial)
                 /\ DigitsToNumber(out[i].serial)
                      <= DigitsToNumber(out[j].serial)
         /\ (\/ ~MatchesInteger(out[i].serial) /\ ~MatchesInteger(out[j].serial)
             \/ /\ MatchesInteger(out[i].serial) /\ MatchesInteger(out[j].serial)
                /\ DigitsToNumber(out[i].serial) = DigitsToNumber(out[j].serial))
              => TextsInOrder(out[i], out[j])
  /\ SerialsOf(input) = << <<"1", "0">>, <<"2">>, <<"a", "b", "c">>, <<"1">> >>
       => SerialsOf(out)
            = << <<"1">>, <<"2">>, <<"1", "0">>, <<"a", "b", "c">> >>

\* C11: for dvd and collectorBluray the sort puts the records with an
\* integer serial first, ascending by numeric value, every record whose
\* serial is no integer after them, and falls back to serial text and then
\* title text; serials 10, 2, abc, 1 come out as 1, 2, 10, abc.
C11_IntegerSerialOrder ==
  [][SortsCategory({"dvd", "collectorBluray"})
       => IntegerOrderAsDescribed(argument.records, result'.value)]_vars

\* The serials 10, 2, abc, 1 of the DVD category have been sorted.
C11_Witness ==
  /\ result.fn = "sortCategoryRecords"
  /\ argument.categoryId = "dvd"
  /\ SerialsOf(argument.records)
       = << <<"1", "0">>, <<"2">>, <<"a", "b", "c">>, <<"1">> >>
  /\ SerialsOf(result.value)
       = << <<"1">>, <<"2">>, <<"1", "0">>, <<"a", "b", "c">> >>

\* The pair a-b of a serial, first by a and then by b.
PairsInOrder(left, right) ==
  \/ left[1] < right[1]
  \/ left[1] = right[1] /\ left[2] <= right[2]

\* The output holds the input records, those whose serial is a pair a-b
\* first and ascending by (a, b), the others after them.
RangeOrderAsDescribed(input, out) ==
  /\ SameElements(out, input)
  /\ \A i, j \in 1..Len(out) :
       i < j =>
         /\ MatchesRange(out[j].serial)
              => /\ MatchesRange(out[i].serial)
                 /\ PairsInOrder(parseBluraySerial(out[i].serial),
                                 parseBluraySerial(out[j].serial))
         /\ parseBluraySerial(out[i].serial) = parseBluraySerial(out[j].serial)
              => TextsInOrder(out[i], out[j])
  /\ SerialsOf(input)
       = << <<"2", "-", "3">>, <<"1", "-", "1", "0">>, <<"2", "-", "1">> >>
       => SerialsOf(out)
            = << <<"1", "-", "1", "0">>, <<"2", "-", "1">>, <<"2", "-", "3">> >>

\* C12: for bluray the sort orders two serials that both read a-b by
\* (a, b) as integers, a first and then b, and puts every record with such
\* a serial before every record whose serial does not read a-b; serials
\* 2-3, 1-10, 2-1 come out as 1-10, 2-1, 2-3.
C12_RangeOrder ==
  [][SortsCategory({"bluray"})
       => RangeOrderAsDescribed(argument.records, result'.value)]_vars

\* The serials 2-3, 1-10, 2-1 of the Blu-ray category have been sorted.
C12_Witness ==
  /\ result.fn = "sortCategoryRecords"
  /\ argument.categoryId = "bluray"
  /\ SerialsOf(argument.records)
       = << <<"2", "-", "3">>, <<"1", "-", "1", "0">>, <<"2", "-", "1">> >>
  /\ SerialsOf(result.value)
       = << <<"1", "-", "1", "0">>, <<"2", "-", "1">>, <<"2", "-", "3">> >>

\* Two parsed numbers in order: one that parsed before one that did not,
\* and two that parsed ascending.
NumbersInOrder(left, right) ==
  right # Null => left # Null /\ left <= right

\* The disk number as described: the leftmost run of Arabic digits of the
\* name, otherwise the Chinese numeral left when a leading disk prefix is
\* taken off.
DiskNumberAsDescribed(disk) ==
  IF FirstDigitRun(disk) # <<>> THEN DigitsToNumber(FirstDigitRun(disk))
  ELSE IF StartsWith(disk, DiskPrefix)
       THEN parseChineseNumber(SubSeq(disk, 3, Len(disk)))
  ELSE parseChineseNumber(disk)

\* The output holds the input records ordered by disk number, disk text,
\* leading integer of the serial, serial text and title text, each
\* criterion deciding where the ones before it tie.
DiskOrderAsDescribed(input, out) ==
  /\ SameElements(out, input)
  /\ \A i, j \in 1..Len(out) :
       i < j =>
         /\ NumbersInOrder(DiskNumberAsDescribed(out[i].disk),
                           DiskNumberAsDescribed(out[j].disk))
         /\ DiskNumberAsDescribed(out[i].disk)
              = DiskNumberAsDescribed(out[j].disk)
              => /\ compareText(out[i].disk, out[j].disk) <= 0
                 /\ compareText(out[i].disk, out[j].disk) = 0
                      => /\ NumbersInOrder(parseHddSerialOrder(out[i].serial),
                                           parseHddSerialOrder(out[j].serial))
                         /\ parseHddSerialOrder(out[i].serial)
                              = parseHddSerialOrder(out[j].serial)
                              => TextsInOrder(out[i], out[j])
  /\ DisksOf(input) = <<DiskTwo, DiskTen, DiskOne>>
       => DisksOf(out) = <<DiskOne, DiskTwo, DiskTen>>

\* C13: for hdd the sort orders by the number of the disk (leftmost run of
\* Arabic digits, otherwise the Chinese numeral after the disk prefix),
\* disks with a number ascending and before the others, then by disk
\* text, then by the leading integer of the serial under the same policy,
\* then by serial text, then by title text; the disks two, 10, one come
\* out as one, two, 10.
C13_DiskOrder ==
  [][SortsCategory({"hdd"})
       => DiskOrderAsDescribed(argument.records, result'.value)]_vars

\* The disks two, 10, one of the hard-disk category have been sorted.
C13_Witness ==
  /\ result.fn = "sortCategoryRecords"
  /\ argument.categoryId = "hdd"
  /\ DisksOf(argument.records) = <<DiskTwo, DiskTen, DiskOne>>
  /\ DisksOf(result.value) = <<DiskOne, DiskTwo, DiskTen>>

SignOf(n) == IF n < 0 THEN -1 ELSE IF n > 0 THEN 1 ELSE 0

\* The sign of the comparator of the category on every two positions of
\* the list.
ComparatorSigns(categoryId, recordList) ==
  {<<i, j, SignOf(CategoryCompare(categoryId, recordList[i], recordList[j]))>> :
     i \in 1..Len(recordList), j \in 1..Len(recordList)}

\* The signs are those of a strict weak ordering of n elements:
\* sign-antisymmetric, and transitive in the strict part, in the ties and
\* across both.
SignsOfStrictWeakOrdering(n, signs) ==
  /\ \A i, j \in 1..n :
       \A sign \in {-1, 0, 1} :
         <<i, j, sign>> \in signs => <<j, i, 0 - sign>> \in signs
  /\ \A i, j, k \in 1..n :
       /\ <<i, j, -1>> \in signs /\ <<j, k, -1>> \in signs
            => <<i, k, -1>> \in signs
       /\ <<i, j, 0>> \in signs /\ <<j, k, 0>> \in signs
            => <<i, k, 0>> \in signs
       /\ <<i, j, 1>> \notin signs /\ <<j, k, 1>> \notin signs
            => <<i, k, 1>> \notin signs

\* On the records of the list the comparator of the category is a strict
\* weak ordering.
IsStrictWeakOrdering(categoryId, recordList) ==
  \E signs \in {ComparatorSigns(categoryId, recordList)} :
    SignsOfStrictWeakOrdering(Len(recordList), signs)

\* C14: each comparator is a strict weak ordering over records
\* (sign-antisymmetric and transitive, also across the boundary between
\* serials that parse and serials that do not and where numbers tie and
\* texts differ), and sorting a sorted list again returns the same list.
C14_StrictWeakOrderIdempotent ==
  [][ApplySort
       => /\ IsStrictWeakOrdering(argument.categoryId, argument.records)
          /\ sortCategoryRecords(argument.categoryId, result'.value)
               = result'.value]_vars

\* A list has been sorted that holds a serial that parses, one that does
\* not, and two records whose numbers tie while their titles differ.
C14_Witness ==
  /\ result.fn = "sortCategoryRecords"
  /\ argument.categoryId = "dvd"
  /\ result.value # argument.records
  /\ \E i, j, k \in 1..Len(argument.records) :
       /\ parseNumericSerial(argument.records[i].serial) # Null
       /\ parseNumericSerial(argument.records[j].serial) = Null
       /\ parseNumericSerial(argument.records[k].serial)
            = parseNumericSerial(argument.records[i].serial)
       /\ argument.records[k].title # argument.records[i].title

\* The list in the order the permutation of its positions gives.
Permuted(recordList, order) ==
  [i \in 1..Len(recordList) |-> recordList[order[i]]]

\* C15: the sorted result does not depend on the order of the input: every
\* permutation of the same list of records sorts to the same sequence,
\* also when records share serial and title and differ in the remark.
C15_SortIgnoresInputOrder ==
  [][ApplySort
       => \A order \in Permutations(1..Len(argument.records)) :
            sortCategoryRecords(argument.categoryId,
                                Permuted(argument.records, order))
              = result'.value]_vars

(***************************************************************************)
(* The text functions on their own: normalizeText on cell values and       *)
(* parseChineseNumber on the texts parseDiskOrder hands to it (already     *)
(* normalized and trimmed, src/src/xls.ts 199-200).                        *)
(***************************************************************************)
MaxTextLength == 4

CellChars == {" ", "LF", "CR", "TAB", "a"}

NumeralChars ==
  {"ling", "yi", "er", "wu", "shi", "bai", "qian", "wan", "2", "a", " "}

NumeralTexts ==
  {text \in SeqsUpTo(NumeralChars, MaxTextLength) : trim(text) = text}
    \cup {<<"a", "b", "c">>}

TextInit ==
  /\ AppAtRest
  /\ \/ \E text \in SeqsUpTo(CellChars, MaxTextLength) :
          argument = [fn |-> "normalizeText", text |-> text]
     \/ \E text \in NumeralTexts :
          argument = [fn |-> "parseChineseNumber", text |-> text]
  /\ result = NoResult

ApplyNormalizeText ==
  /\ argument.fn = "normalizeText"
  /\ result' = [fn |-> "normalizeText", value |-> normalizeText(argument.text)]
  /\ UNCHANGED <<records, activeCategory, isFormOpen, editingId, formValues,
                 errorMessage, isSaving, autoSaveQueue, saving, loads, file,
                 now, mutations, loadsStarted, manualSaves, autoStarted,
                 autoSettled, searchValue, argument, host>>

ApplyParseChineseNumber ==
  /\ argument.fn = "parseChineseNumber"
  /\ result' = [fn |-> "parseChineseNumber",
                value |-> parseChineseNumber(argument.text)]
  /\ UNCHANGED <<records, activeCategory, isFormOpen, editingId, formValues,
                 errorMessage, isSaving, autoSaveQueue, saving, loads, file,
                 now, mutations, loadsStarted, manualSaves, autoStarted,
                 autoSettled, searchValue, argument, host>>

TextNext == ApplyNormalizeText \/ ApplyParseChineseNumber

SpecText == TextInit /\ [][TextNext]_vars

(***************************************************************************)
(* Properties of the text functions                                        *)
(***************************************************************************)
\* The digit tokens ling .. jiu with their values 0 .. 9.
DigitTokens ==
  <<"ling", "yi", "er", "san", "si", "wu", "liu", "qi", "ba", "jiu">>

IsDigitToken(c) == \E i \in 1..10 : DigitTokens[i] = c

DigitTokenValue(c) == (CHOOSE i \in 1..10 : DigitTokens[i] = c) - 1

IsUnitToken(c) == c \in {"shi", "bai", "qian", "wan"}

UnitTokenValue(c) ==
  IF c = "shi" THEN 10
  ELSE IF c = "bai" THEN 100
  ELSE IF c = "qian" THEN 1000
  ELSE 10000

\* The section / unit accumulation over a text of digit and unit tokens:
\* a digit token is kept for the unit after it, a unit below wan adds
\* digit x unit to the section (1 x unit when no digit precedes it), wan
\* folds (section + digit) x 10000 into the total, and the value is
\* total + section + trailing digit.
RECURSIVE Accumulated(_, _, _, _)
Accumulated(text, total, section, digit) ==
  IF text = <<>> THEN total + section + digit
  ELSE IF IsDigitToken(Head(text))
  THEN Accumulated(Tail(text), total, section, DigitTokenValue(Head(text)))
  ELSE IF Head(text) = "wan"
  THEN Accumulated(Tail(text), total + (section + digit) * 10000, 0, 0)
  ELSE Accumulated(Tail(text), total,
         section + (IF digit = 0 THEN 1 ELSE digit) * UnitTokenValue(Head(text)),
         0)

ChineseNumberAsDescribed(text, value) ==
  /\ MatchesInteger(text) => value = DigitsToNumber(text)
  /\ (/\ text # <<>>
      /\ \A i \in 1..Len(text) : IsDigitToken(text[i]) \/ IsUnitToken(text[i]))
       => value = Accumulated(text, 0, 0, 0)
  /\ text = <<"shi", "er">> => value = 12
  /\ text = <<"er", "shi">> => value = 20
  /\ text = <<"yi", "bai", "ling", "wu">> => value = 105
  /\ text = <<"wu", "bai">> => value = 500
  /\ (\/ text = <<>>
      \/ \E i \in 1..Len(text) :
           ~(IsDigit(text[i]) \/ IsDigitToken(text[i]) \/ IsUnitToken(text[i])))
       => value = Null

C17_WanWithAbbreviatedDigit ==
  [][(ApplyParseChineseNumber /\ argument.text = <<"yi", "wan", "er">>)
       => result'.value = 12000]_vars

\* C19: the normalized text of every cell value has no white space at
\* either end and holds no line break, neither LF nor CR (a CR not followed
\* by LF included), and normalizing it again changes nothing.
C19_NormalizedText ==
  [][ApplyNormalizeText
       => /\ result'.value = <<>>
               \/ /\ ~IsWhitespace(Head(result'.value))
                  /\ ~IsWhitespace(result'.value[Len(result'.value)])
          /\ \A i \in 1..Len(result'.value) :
               result'.value[i] \notin {"LF", "CR"}
          /\ normalizeText(result'.value) = result'.value]_vars

(***************************************************************************)
(* Properties of the identifiers parseWorkbook generates                   *)
(***************************************************************************)
\* No two records of the CategoryRecords, of one category or of two, have
\* the same identifier.
IdsPairwiseDistinct(categoryRecords) ==
  \A c1, c2 \in CategoryIds :
    \A i \in 1..Len(categoryRecords[c1]) :
      \A j \in 1..Len(categoryRecords[c2]) :
        categoryRecords[c1][i].id = categoryRecords[c2][j].id
          => c1 = c2 /\ i = j

\* C18: in the CategoryRecords one parseWorkbook call returns, the record
\* identifiers are pairwise distinct across all four categories, also with
\* duplicate serials, several records in one row of the block layout, and
\* two categories read by different layouts.
C18_ParsedIdsDistinct ==
  [][ReadWorkbook => IdsPairwiseDistinct(records')]_vars

\* A workbook has been parsed whose DVD sheet holds two records with the
\* same serial in one row of the block layout and whose hard-disk sheet is
\* read by the flat layout.
C18_Witness ==
  /\ Len(records["dvd"]) = 2
  /\ Len(records["hdd"]) = 1
  /\ Len(records["dvd"][1].id) = 4
  /\ Len(records["dvd"][2].id) = 4
  /\ Len(records["hdd"][1].id) = 3
  /\ records["dvd"][1].serial = records["dvd"][2].serial
  /\ records["dvd"][1].id[2] = records["dvd"][2].id[2]
  /\ records["dvd"][1].id # records["dvd"][2].id

(***************************************************************************)
(* Search (src/src/xls.ts 589-596, src/unnamed/part_000 295-309)           *)
(***************************************************************************)
\* The characters of a category id.
CategoryIdText(categoryId) ==
  CASE categoryId = "dvd" -> <<"d", "v", "d">>
    [] categoryId = "bluray" -> <<"b", "l", "u", "r", "a", "y">>
    [] categoryId = "collectorBluray" ->
         <<"c", "o", "l", "l", "e", "c", "t", "o", "r",
           "B", "l", "u", "r", "a", "y">>
    [] OTHER -> <<"h", "d", "d">>

\* Array.prototype.join
RECURSIVE Join(_, _)
Join(values, separator) ==
  IF values = <<>> THEN <<>>
  ELSE IF Len(values) = 1 THEN values[1]
  ELSE values[1] \o separator \o Join(Tail(values), separator)

\* The values of the record in the order of its entries, the id left out.
buildSearchIndex(record, categoryId) ==
  LET fields == categoriesById(categoryId).fields
      values == [i \in 1..Len(fields) |->
                   toLowerCase(normalizeText(record[fields[i].key]))]
  IN Join(Append(values, toLowerCase(CategoryIdText(categoryId))), <<"|">>)

\* text.replace(/。/g, ".")
FoldPeriods(text) ==
  [i \in 1..Len(text) |-> IF text[i] = "FWP" THEN "." ELSE text[i]]

\* The composite key the hard-disk search matches against.
HddSearchText(record) ==
  FoldPeriods(toLowerCase(
    trim(record.disk) \o <<".">> \o trim(record.serial) \o <<".">>
      \o trim(record.title)))

\* The records the table shows.
filteredRecords ==
  LET keyword == FoldPeriods(toLowerCase(trim(searchValue)))
      categoryRecords == records[activeCategory]
  IN IF keyword = <<>> THEN categoryRecords
     ELSE IF activeCategory = "hdd"
     THEN SelectSeq(categoryRecords,
                    LAMBDA record : Includes(HddSearchText(record), keyword))
     ELSE SelectSeq(categoryRecords,
                    LAMBDA record :
                      Includes(buildSearchIndex(record, activeCategory),
                               keyword))

\* onChange of the search input.
setSearchValue(value) ==
  /\ searchValue' = value
  /\ UNCHANGED <<records, activeCategory, isFormOpen, editingId, formValues,
                 errorMessage, isSaving, autoSaveQueue, saving, loads, file,
                 now, mutations, loadsStarted, manualSaves, autoStarted,
                 autoSettled, argument, result, host>>

(***************************************************************************)
(* The search on its own: records as a load leaves them, the user typing   *)
(* into the search input and switching between the four categories.        *)
(***************************************************************************)
MaxSearchRecords == 2

SearchDiscRecord(serial, title, remark) ==
  [id |-> <<"in">>, serial |-> serial, title |-> title, remark |-> remark]

SearchHddRecord(serial, title, genre) ==
  [id |-> <<"in">>, disk |-> DiskOne, serial |-> serial, title |-> title,
   subtitle |-> <<>>, genre |-> genre, remark |-> <<>>]

SearchSamples ==
  {[c \in CategoryIds |->
      IF c = "dvd" THEN dvd ELSE IF c = "bluray" THEN bluray
      ELSE IF c = "hdd" THEN hdd ELSE collector] :
     dvd \in SeqsUpTo({SearchDiscRecord(<<"1">>, <<"a">>, <<>>),
                       SearchDiscRecord(<<"2">>, <<"b">>, <<"m">>)},
                      MaxSearchRecords),
     bluray \in SeqsUpTo({SearchDiscRecord(<<"1", "-", "1">>, <<"a">>, <<>>)},
                         MaxSearchRecords),
     collector \in SeqsUpTo({SearchDiscRecord(<<"1">>, <<"A">>, <<"m">>)},
                            MaxSearchRecords),
     hdd \in SeqsUpTo({SearchHddRecord(<<"1">>, <<"a">>, <<>>),
                       SearchHddRecord(<<"2">>, <<"b">>, <<"m">>)},
                      MaxSearchRecords)}

\* What the user types into the search input.
SearchInputs ==
  {<<>>, <<" ">>, <<"a">>, <<" ", "A", " ">>, <<"m">>, <<"d">>, <<"z">>,
   <<"1", ".", "a">>, <<"1", "FWP", "a">>}

SearchInit ==
  /\ \E candidates \in SearchSamples :
       /\ file = BuildWorkbook("flat", "flat", candidates)
       /\ records = parseWorkbook(file, 0)
  /\ activeCategory = DEFAULT_CATEGORY
  /\ isFormOpen = FALSE
  /\ editingId = NoId
  /\ formValues = resetForm(DEFAULT_CATEGORY, createEmptyRecords)
  /\ errorMessage = ""
  /\ isSaving = FALSE
  /\ autoSaveQueue = <<>>
  /\ saving = {}
  /\ loads = <<>>
  /\ now = 0
  /\ mutations = 0
  /\ loadsStarted = 0
  /\ manualSaves = 0
  /\ autoStarted = <<>>
  /\ autoSettled = <<>>
  /\ searchValue = <<>>
  /\ host = HostAtRest
  /\ argument = NoArgument
  /\ result = NoResult

SearchNext ==
  \/ \E value \in SearchInputs : setSearchValue(value)
  \/ \E nextCategory \in CategoryIds : handleCategorySwitch(nextCategory)

SpecSearch == SearchInit /\ [][SearchNext]_vars

(***************************************************************************)
(* Properties of the search                                                *)
(***************************************************************************)
\* The record matches the keyword as described: the keyword is part of the
\* search index, or, for the hard-disk category, of the composite key.
MatchesAsDescribed(record, categoryId, keyword) ==
  \/ Includes(buildSearchIndex(record, categoryId), keyword)
  \/ /\ categoryId = "hdd"
     /\ Includes(HddSearchText(record), FoldPeriods(keyword))

\* C20: the table shows the records of the active category whose search
\* index contains the trimmed, lower-cased keyword, in all four
\* categories; in the hard-disk category the composite key
\* disk.serial.title is one more way to match, so that a hard-disk record
\* with the keyword in subtitle, genre or remark is shown; with an empty
\* keyword every record of the active category is shown.
C20_SearchAsDescribed ==
  filteredRecords
    = IF toLowerCase(trim(searchValue)) = <<>> THEN records[activeCategory]
      ELSE SelectSeq(records[activeCategory],
                     LAMBDA record :
                       MatchesAsDescribed(record, activeCategory,
                                          toLowerCase(trim(searchValue))))

(***************************************************************************)
(* The reader on its own: parseWorkbook on workbooks whose sheet names,    *)
(* layouts and cells are drawn.                                            *)
(***************************************************************************)
MaxSheets == 4

\* Two rows from which every category reads exactly one record, of the
\* given title: the DVD and the collector's category from columns 0-2 of
\* the first row, the Blu-ray category from columns 3-5, the hard-disk
\* category from the second row under the flat layout.
TaggedRows(title) ==
  << << <<"1">>, title, <<>>, <<"1", "-", "1">>, title, <<>> >>,
     << DiskOne, <<"1">>, title, <<>>, <<>>, <<>> >> >>

SheetTags == << <<"a">>, <<"b">>, <<"c">>, <<"d">>, <<"e">> >>

\* Names a sheet of a workbook may carry: the declared names, the DVD
\* name with a space after it or with more text after it, and a name of
\* no category.
SheetNamePool ==
  {categories[i].sheetName : i \in 1..Len(categories)}
    \cup {categories[1].sheetName \o <<" ">>,
          categories[1].sheetName \o <<"2">>,
          <<"S", "h", "e", "e", "t">>}

\* The workbooks of up to MaxSheets sheets with names of the pool, no name
\* twice, the sheet at position i tagged by the i-th title.
NamedWorkbooks ==
  {[ok |-> TRUE,
    sheets |-> [i \in 1..Len(names) |->
                  [name |-> names[i], rows |-> TaggedRows(SheetTags[i])]]] :
     names \in {ns \in SeqsUpTo(SheetNamePool, MaxSheets) :
                  \A i, j \in 1..Len(ns) : ns[i] = ns[j] => i = j}}

MaxLayoutRows == 4

\* The workbook with the four declared sheets, all empty but the one of
\* the category, which holds the rows.
WorkbookWithSheet(categoryId, rows) ==
  [ok |-> TRUE,
   sheets |-> [i \in 1..Len(categories) |->
                 [name |-> categories[i].sheetName,
                  rows |-> IF categories[i].id = categoryId THEN rows
                           ELSE <<>>]]]

\* Rows of a hard-disk sheet: a disk heading, a heading with a second
\* cell, the flat header with a second serial column, the repeated block
\* header, a data row of the flat layout and one of the block layout.
HddRowPool ==
  {<< DiskOne \o <<"LPFW", "2", "t">> >>,
   << DiskOne, <<"x">> >>,
   << L_disk, L_serial, L_hddTitle, L_subtitle, L_genre, L_remark, L_serial >>,
   << L_serial, L_hddTitle, L_subtitle, L_genre, L_remark,
      L_serial, L_hddTitle, L_subtitle, L_genre, L_remark >>,
   << DiskOne, <<"1">>, <<"b">>, <<>>, <<>>, <<>> >>,
   << <<"2">>, <<"a">>, <<>>, <<>>, <<>>, <<"1">>, <<"c">> >>}

\* Rows of a disc sheet: two records side by side, a record with a serial
\* that is no integer, the header of a sheet that keeps the title first,
\* and a row of such a sheet.
DiscRowPool ==
  {<< <<"2">>, <<"a">>, <<>>, <<"1">>, <<"b">> >>,
   << <<"x">>, <<"a">>, <<>> >>,
   << <<"pian", "ming">>, <<"bian", "hao">>, L_remark >>,
   << <<"c">>, <<"3">>, <<>> >>,
   << <<"d">>, <<"1">>, <<"r">> >>}

LayoutWorkbooks ==
  {WorkbookWithSheet("hdd", rows) :
     rows \in SeqsUpTo(HddRowPool, MaxLayoutRows)}
    \cup {WorkbookWithSheet("dvd", rows) :
            rows \in SeqsUpTo(DiscRowPool, MaxLayoutRows)}

ReadWorkbooks == NamedWorkbooks \cup LayoutWorkbooks

MaxBlockCells == 6

BlockCellPool == {<<>>, <<" ">>, <<"1">>, <<"1", "-", "1">>}

\* Sheets for the block extraction: a row of up to MaxBlockCells cells,
\* alone or under a blank row or under a row with one record.
BlockSheets ==
  {[name |-> <<"S">>, rows |-> above \o <<row>>] :
     above \in {<<>>, << << <<" ">>, <<" ">>, <<" ">> >> >>,
                 << << <<"1">>, <<"1">>, <<>> >> >>},
     row \in SeqsUpTo(BlockCellPool, MaxBlockCells)}

MaxHddBlockRows == 4

\* Rows of a hard-disk sheet in the disk-block layout: the headings of
\* two disks with an annotation in full-width and in ASCII parentheses,
\* the repeated header row, a blank row, and data rows of one group, of
\* two groups, and of a group with no serial.
HddBlockRowPool ==
  {<< DiskOne \o <<" ", "LPFW", "2", "t">> >>,
   << <<>>, DiskTwo \o <<"(", "1", "t">> >>,
   << L_serial, L_hddTitle, L_subtitle, L_genre, L_remark,
      L_serial, L_hddTitle, L_subtitle, L_genre, L_remark >>,
   << <<" ">>, <<>> >>,
   << <<"2">>, <<"a">>, <<>>, <<"m">>, <<>> >>,
   << <<"1">>, <<"b">>, <<>>, <<>>, <<>>, <<"3">>, <<"c">> >>,
   << <<>>, <<"d">>, <<>>, <<>>, <<>> >>}

HddBlockSheets ==
  {[name |-> <<"S">>, rows |-> rows] :
     rows \in SeqsUpTo(HddBlockRowPool, MaxHddBlockRows)}

MaxFlatRows == 3

\* Rows of a DVD sheet in the flat layout: the labels in declared order;
\* aliases with the title first, one in mixed case; aliases of the serial
\* against their declared order, no remark column; a row with one label
\* only; a label beside an alias of the same field; and two data rows.
FlatRowPool ==
  {<< L_serial, L_discTitle, L_remark >>,
   << <<"pian", "ming">>, <<"i", "D">>, <<"shuo", "ming">> >>,
   << <<"n", "o">>, <<"bian", "hao">>, <<"ming", "cheng">> >>,
   << <<"x">>, L_serial >>,
   << <<"bian", "hao">>, L_serial, <<"x">> >>,
   << <<"1">>, <<"a">>, <<"r">> >>,
   << <<" ", "b", " ">>, <<"2">>, <<>> >>}

FillerRow == << <<"9">>, <<"z">>, <<>> >>

\* Sheets for the flat extraction: up to MaxFlatRows rows of the pool
\* under no row, under MaxHeaderRows - 1 rows or under MaxHeaderRows rows
\* that hold no label.
FlatSheets ==
  {[name |-> <<"S">>, rows |-> [i \in 1..above |-> FillerRow] \o rows] :
     above \in {0, MaxHeaderRows - 1, MaxHeaderRows},
     rows \in SeqsUpTo(FlatRowPool, MaxFlatRows)}

ReadInit ==
  /\ AppAtRest
  /\ argument \in {[fn |-> "parseWorkbook", buffer |-> buffer] :
                     buffer \in ReadWorkbooks}
                    \cup {[fn |-> "parseDiscBlockSheet", sheet |-> sheet,
                           categoryId |-> categoryId] :
                            sheet \in BlockSheets,
                            categoryId \in {"dvd", "bluray"}}
                    \cup {[fn |-> "parseHddBlockSheet", sheet |-> sheet] :
                            sheet \in HddBlockSheets}
                    \cup {[fn |-> "parseFlatSheet", sheet |-> sheet,
                           categoryId |-> "dvd"] :
                            sheet \in FlatSheets}
  /\ result = NoResult

ApplyParseWorkbook ==
  /\ argument.fn = "parseWorkbook"
  /\ result' = [fn |-> "parseWorkbook",
                value |-> parseWorkbook(argument.buffer, now)]
  /\ UNCHANGED <<records, activeCategory, isFormOpen, editingId, formValues,
                 errorMessage, isSaving, autoSaveQueue, saving, loads, file,
                 now, mutations, loadsStarted, manualSaves, autoStarted,
                 autoSettled, searchValue, argument, host>>

ApplyParseDiscBlockSheet ==
  /\ argument.fn = "parseDiscBlockSheet"
  /\ result' = [fn |-> "parseDiscBlockSheet",
                value |-> parseDiscBlockSheet(argument.sheet,
                            categoriesById(argument.categoryId), now)]
  /\ UNCHANGED <<records, activeCategory, isFormOpen, editingId, formValues,
                 errorMessage, isSaving, autoSaveQueue, saving, loads, file,
                 now, mutations, loadsStarted, manualSaves, autoStarted,
                 autoSettled, searchValue, argument, host>>

ApplyParseHddBlockSheet ==
  /\ argument.fn = "parseHddBlockSheet"
  /\ result' = [fn |-> "parseHddBlockSheet",
                value |-> parseHddBlockSheet(argument.sheet, now)]
  /\ UNCHANGED <<records, activeCategory, isFormOpen, editingId, formValues,
                 errorMessage, isSaving, autoSaveQueue, saving, loads, file,
                 now, mutations, loadsStarted, manualSaves, autoStarted,
                 autoSettled, searchValue, argument, host>>

ApplyParseFlatSheet ==
  /\ argument.fn = "parseFlatSheet"
  /\ result' = [fn |-> "parseFlatSheet",
                value |-> parseFlatSheet(argument.sheet,
                            categoriesById(argument.categoryId), now)]
  /\ UNCHANGED <<records, activeCategory, isFormOpen, editingId, formValues,
                 errorMessage, isSaving, autoSaveQueue, saving, loads, file,
                 now, mutations, loadsStarted, manualSaves, autoStarted,
                 autoSettled, searchValue, argument, host>>

ReadNext ==
  \/ ApplyParseFlatSheet
  \/ ApplyParseWorkbook
  \/ ApplyParseDiscBlockSheet
  \/ ApplyParseHddBlockSheet

SpecRead == ReadInit /\ [][ReadNext]_vars

(***************************************************************************)
(* Properties of the reader                                                *)
(***************************************************************************)
\* The position of the first sheet whose name stands in the relation to
\* the wanted name, 0 when there is none.
FirstNamed(sheets, wanted, Related(_, _)) ==
  IF \E i \in 1..Len(sheets) : Related(sheets[i].name, wanted)
  THEN CHOOSE i \in 1..Len(sheets) :
         /\ Related(sheets[i].name, wanted)
         /\ \A j \in 1..(i - 1) : ~Related(sheets[j].name, wanted)
  ELSE 0

\* The sheet of the category: the first with a name in the first relation,
\* else the first with a name that contains the category's sheet name,
\* else the one at the category's position, else none (0).
SheetChosen(sheets, category, position, Same(_, _)) ==
  IF FirstNamed(sheets, category.sheetName, Same) # 0
  THEN FirstNamed(sheets, category.sheetName, Same)
  ELSE IF FirstNamed(sheets, category.sheetName, Includes) # 0
  THEN FirstNamed(sheets, category.sheetName, Includes)
  ELSE IF position <= Len(sheets) THEN position
  ELSE 0

\* Every category holds what its chosen sheet reads as, and nothing when
\* it has no sheet.
ReadsChosenSheets(buffer, categoryRecords, Same(_, _)) ==
  \A i \in 1..Len(categories) :
    \E chosen \in {SheetChosen(buffer.sheets, categories[i], i, Same)} :
      categoryRecords[categories[i].id]
        = IF chosen = 0 THEN <<>>
          ELSE parseSheet(buffer.sheets[chosen], categories[i], now)

NameEqual(sheetName, wanted) == sheetName = wanted

NameEqualTrimmed(sheetName, wanted) == trim(sheetName) = wanted

\* C21 as stated: the sheet of a category is the one whose name is exactly
\* the category's sheet name, else the first whose name contains it, else
\* the sheet at the category's position; a category with no sheet is
\* empty, no error is raised and the other categories are parsed.
C21_SheetByExactName ==
  [][ApplyParseWorkbook
       => ReadsChosenSheets(argument.buffer, result'.value, NameEqual)]_vars

\* C21, amended: the first choice is the first sheet whose name, white
\* space at its ends taken off, equals the category's sheet name; then the
\* first sheet whose name contains it; then the sheet at the category's
\* position; a category with no sheet is empty and the others are parsed.
C21_SheetByTrimmedName ==
  [][ApplyParseWorkbook
       => ReadsChosenSheets(argument.buffer, result'.value,
                            NameEqualTrimmed)]_vars

\* A workbook has been parsed in which the sheet named by the DVD name and
\* a space stands before the sheet with the DVD name itself, and the DVD
\* records are those of the first of the two; the hard-disk category found
\* no sheet and is empty.
C21_Witness ==
  /\ result.fn = "parseWorkbook"
  /\ Len(argument.buffer.sheets) = 2
  /\ argument.buffer.sheets[1].name = categories[1].sheetName \o <<" ">>
  /\ argument.buffer.sheets[2].name = categories[1].sheetName
  /\ Len(result.value["dvd"]) = 1
  /\ result.value["dvd"][1].title = SheetTags[1]
  /\ result.value["hdd"] = <<>>
  /\ Len(result.value["bluray"]) = 1

\* A disk-heading row as described: exactly one cell that is not blank,
\* and that cell starts with the disk prefix.
DiskHeadingAsDescribed(row) ==
  /\ Cardinality({i \in 1..Len(row) : normalizeText(row[i]) # <<>>}) = 1
  /\ \E i \in 1..Len(row) :
       /\ normalizeText(row[i]) # <<>>
       /\ StartsWith(normalizeText(row[i]), <<"ying", "pan">>)

\* A row with at least two serial-label cells and a title-label cell.
RepeatedHeaderAsDescribed(row) ==
  /\ Cardinality({i \in 1..Len(row) : normalizeText(row[i]) = L_serial}) >= 2
  /\ \E i \in 1..Len(row) : normalizeText(row[i]) = L_hddTitle

DiskBlockLayoutAsDescribed(matrix) ==
  /\ \E r \in 1..Len(matrix) : DiskHeadingAsDescribed(matrix[r])
  /\ \E r \in 1..Len(matrix) : RepeatedHeaderAsDescribed(matrix[r])

\* The valid records of the flat extraction, in the category's order.
FlatExtraction(sheet, category) ==
  sortCategoryRecords(category.id,
    SelectSeq(parseFlatSheet(sheet, category, now),
              LAMBDA record : IsValidRecord(category.id, record)))

\* The records of the category are those of the extraction the layout
\* rule selects for the sheet, in the category's order.
LayoutAsDescribed(sheet, category, categoryRecords) ==
  /\ category.id = "hdd"
       => categoryRecords
            = IF DiskBlockLayoutAsDescribed(sheet_to_json(sheet))
              THEN parseHddBlockSheet(sheet, now)
              ELSE FlatExtraction(sheet, category)
  /\ category.id # "hdd"
       => categoryRecords
            = IF parseDiscBlockSheet(sheet, category, now) = <<>>
              THEN FlatExtraction(sheet, category)
              ELSE parseDiscBlockSheet(sheet, category, now)
  /\ \A i \in 1..(Len(categoryRecords) - 1) :
       CategoryCompare(category.id, categoryRecords[i],
                       categoryRecords[i + 1]) <= 0

\* C22: for dvd, bluray and collectorBluray the flat extraction is used
\* if and only if the block extraction yields no valid record; for hdd the
\* disk-block extraction is used if and only if the sheet has a
\* disk-heading row and a row with two serial labels and a title label,
\* and the flat extraction otherwise, never after an empty disk-block
\* result; the result is in the category's order.
C22_LayoutSelection ==
  [][ApplyParseWorkbook
       => \A i \in 1..Len(categories) :
            \E chosen \in {resolveSheetName(argument.buffer, categories[i],
                                            i - 1)} :
              chosen # 0
                => LayoutAsDescribed(argument.buffer.sheets[chosen],
                                     categories[i],
                                     result'.value[categories[i].id])]_vars

\* A hard-disk sheet with a disk heading and a header row with two serial
\* labels has been read by the disk-block extraction, which found no
\* record where the flat extraction finds one; and so the category is
\* empty.
C22_Witness ==
  /\ result.fn = "parseWorkbook"
  /\ Len(argument.buffer.sheets) = 4
  /\ DiskBlockLayoutAsDescribed(sheet_to_json(argument.buffer.sheets[4]))
  /\ FlatExtraction(argument.buffer.sheets[4], categories[4]) # <<>>
  /\ result.value["hdd"] = <<>>

\* The cells of the group of N columns that starts at the 0-based column,
\* normalized, cells beyond the end of the row being empty.
GroupCells(row, column, N) ==
  [k \in 1..N |-> normalizeText(CellAt(row, column + k))]

\* The record holds the cells in the order of the fields.
HoldsCells(record, category, cells) ==
  \A k \in 1..Len(category.fields) : record[category.fields[k].key] = cells[k]

\* The 0-based columns at which groups of N columns start in a row that is
\* not blank: 0, N, 2N, ... below the width of the row.
StepsAsDescribed(row, N) ==
  IF \A i \in 1..Len(row) : normalizeText(row[i]) = <<>> THEN {}
  ELSE {column \in 0..(Len(row) - 1) : column % N = 0}

\* The extracted records are, one for one, the groups of the steps of the
\* rows that hold a valid record, each identified by its row and column
\* and holding the cells of its group in field order.
BlockExtractionAsDescribed(matrix, category, out) ==
  \E N \in {Len(category.fields)} :
    /\ \A n \in 1..Len(out) :
         /\ Len(out[n].id) = 4
         /\ out[n].id[2] + 1 \in 1..Len(matrix)
         /\ out[n].id[3] \in StepsAsDescribed(matrix[out[n].id[2] + 1], N)
         /\ HoldsCells(out[n], category,
                       GroupCells(matrix[out[n].id[2] + 1], out[n].id[3], N))
         /\ \A m \in 1..Len(out) : out[m].id = out[n].id => m = n
    /\ \A r \in 1..Len(matrix) :
         \A column \in StepsAsDescribed(matrix[r], N) :
           \E cells \in {GroupCells(matrix[r], column, N)} :
             (\E n \in 1..Len(out) :
                out[n].id[2] = r - 1 /\ out[n].id[3] = column)
               <=> IsValidRecord(category.id,
                                 [serial |-> cells[1], title |-> cells[2],
                                  remark |-> cells[3]])
    /\ \A r \in 1..Len(matrix) :
         (/\ Len(matrix[r]) % N = 0
          /\ \A column \in StepsAsDescribed(matrix[r], N) :
               IsValidRecord(category.id,
                             [serial |-> GroupCells(matrix[r], column, N)[1],
                              title |-> GroupCells(matrix[r], column, N)[2],
                              remark |-> GroupCells(matrix[r], column, N)[3]]))
           => Cardinality({n \in 1..Len(out) : out[n].id[2] = r - 1})
                = Cardinality(StepsAsDescribed(matrix[r], N))

\* C23: the block extraction walks every row that is not blank in steps of
\* N columns, N the number of fields, and makes one candidate per step
\* from the N cells in field order, a step of blank cells making none; a
\* row of k x N cells without a blank group gives exactly k candidates,
\* from columns 0..N-1, N..2N-1, and so on (six cells and three fields give
\* two, from columns 0-2 and 3-5), and a last group that is cut short is
\* filled with empty texts.
C23_BlockExtraction ==
  [][ApplyParseDiscBlockSheet
       => BlockExtractionAsDescribed(sheet_to_json(argument.sheet),
                                     categoriesById(argument.categoryId),
                                     result'.value)]_vars

\* A row of six cells has been read as two DVD records, from columns 0-2
\* and 3-5.
C23_Witness ==
  /\ result.fn = "parseDiscBlockSheet"
  /\ argument.categoryId = "dvd"
  /\ argument.sheet.rows
       = << << <<"1">>, <<"1">>, <<"1">>, <<"1">>, <<"1">>, <<"1">> >> >>
  /\ Len(result.value) = 2
  /\ {result.value[1].id[3], result.value[2].id[3]} = {0, 3}

\* A row of five cells has been read as two DVD records, the second from
\* columns 3-4 with an empty remark.
C23_WitnessPartialGroup ==
  /\ result.fn = "parseDiscBlockSheet"
  /\ argument.categoryId = "dvd"
  /\ argument.sheet.rows = << << <<"1">>, <<"1">>, <<"1">>, <<"1">>, <<"1">> >> >>
  /\ \E n \in 1..Len(result.value) :
       result.value[n].id[3] = 3 /\ result.value[n].remark = <<>>

\* The text of the one cell of a heading row that is not blank.
HeadingText(row) ==
  normalizeText(row[CHOOSE i \in 1..Len(row) : normalizeText(row[i]) # <<>>])

\* The disk name of a heading: the text up to, and without, the first
\* opening parenthesis, ASCII or full-width, white space at its ends taken
\* off.
DiskNameAsDescribed(heading) ==
  IF \E i \in 1..Len(heading) : heading[i] \in {"(", "LPFW"}
  THEN trim(SubSeq(heading, 1,
              (CHOOSE i \in 1..Len(heading) :
                 /\ heading[i] \in {"(", "LPFW"}
                 /\ \A j \in 1..(i - 1) : heading[j] \notin {"(", "LPFW"}) - 1))
  ELSE trim(heading)

\* A row that holds the serial, the title and the genre label.
HddHeaderAsDescribed(row) ==
  \A label \in {L_serial, L_hddTitle, L_genre} :
    \E i \in 1..Len(row) : normalizeText(row[i]) = label

\* A row that makes records: not blank, no disk heading, no header row.
IsDataRow(row) ==
  /\ \E i \in 1..Len(row) : normalizeText(row[i]) # <<>>
  /\ ~DiskHeadingAsDescribed(row)
  /\ ~HddHeaderAsDescribed(row)

\* The 1-based row of the nearest disk heading above row r, 0 if none.
HeadingAbove(matrix, r) ==
  IF \E h \in 1..(r - 1) : DiskHeadingAsDescribed(matrix[h])
  THEN CHOOSE h \in 1..(r - 1) :
         /\ DiskHeadingAsDescribed(matrix[h])
         /\ \A k \in (h + 1)..(r - 1) : ~DiskHeadingAsDescribed(matrix[k])
  ELSE 0

\* The record is the group of five cells at its row and column under the
\* disk of the nearest heading above.
IsGroupUnderHeading(matrix, record) ==
  \E r \in {record.id[2] + 1} :
    /\ r \in 1..Len(matrix)
    /\ IsDataRow(matrix[r])
    /\ record.id[3] % 5 = 0
    /\ record.id[3] < Len(matrix[r])
    /\ <<record.serial, record.title, record.subtitle, record.genre,
         record.remark>> = GroupCells(matrix[r], record.id[3], 5)
    /\ HeadingAbove(matrix, r) # 0
    /\ record.disk
         = DiskNameAsDescribed(HeadingText(matrix[HeadingAbove(matrix, r)]))

HddBlockExtractionAsDescribed(matrix, out) ==
  /\ \A n \in 1..Len(out) :
       /\ Len(out[n].id) = 4
       /\ IsGroupUnderHeading(matrix, out[n])
       /\ \A m \in 1..Len(out) : out[m].id = out[n].id => m = n
  /\ \A r \in 1..Len(matrix) :
       \A column \in {c \in 0..(Len(matrix[r]) - 1) : c % 5 = 0} :
         \E cells \in {GroupCells(matrix[r], column, 5)} :
           (/\ IsDataRow(matrix[r])
            /\ HeadingAbove(matrix, r) # 0
            /\ MatchesInteger(cells[1])
            /\ cells[2] # <<>>)
             => \E n \in 1..Len(out) :
                  out[n].id[2] = r - 1 /\ out[n].id[3] = column

\* C24: in the disk-block extraction of the hard-disk sheet every record
\* of a data row carries as its disk the name taken from the nearest
\* disk-heading row above it, the heading text up to and without the first
\* opening parenthesis (ASCII or full-width), trimmed; a disk-heading row
\* and a row that holds the serial, title and genre labels make no record;
\* data rows are split into groups of five columns (serial, title,
\* subtitle, genre, remark); and groups of rows above the first disk
\* heading have an empty disk and are dropped.
C24_DiskBlockExtraction ==
  [][ApplyParseHddBlockSheet
       => HddBlockExtractionAsDescribed(sheet_to_json(argument.sheet),
                                        result'.value)]_vars

\* A sheet has been read in which a data row stands above the first disk
\* heading and a row of two groups under the heading of the second disk:
\* the records are the two groups, on the disk named by the heading
\* without its annotation.
C24_Witness ==
  /\ result.fn = "parseHddBlockSheet"
  /\ argument.sheet.rows
       = << << <<"2">>, <<"a">>, <<>>, <<"m">>, <<>> >>,
            << <<>>, DiskTwo \o <<"(", "1", "t">> >>,
            << <<"1">>, <<"b">>, <<>>, <<>>, <<>>, <<"3">>, <<"c">> >> >>
  /\ Len(result.value) = 2
  /\ result.value[1].disk = DiskTwo
  /\ result.value[2].disk = DiskTwo
  /\ result.value[2].id[3] = 5

\* Equal without regard to case, after normalization.
SameHeaderText(cell, text) ==
  toLowerCase(normalizeText(cell)) = toLowerCase(text)

\* The cell is a label or an alias of a field of the category.
NamesAField(cell, category) ==
  \E i \in 1..Len(category.fields) :
    \/ SameHeaderText(cell, category.fields[i].label)
    \/ \E k \in 1..Len(category.fields[i].aliases) :
         SameHeaderText(cell, category.fields[i].aliases[k])

LabelCount(row, category) ==
  Cardinality({i \in 1..Len(row) : NamesAField(row[i], category)})

\* The 1-based header row as described: among the first at most 30 rows
\* the earliest with the highest count of label and alias cells.
HeaderRowAsDescribed(matrix, category) ==
  CHOOSE h \in 1..Len(matrix) :
    /\ h <= 30
    /\ \A j \in 1..Len(matrix) :
         j <= 30 => LabelCount(matrix[j], category)
                      <= LabelCount(matrix[h], category)
    /\ \A j \in 1..(h - 1) :
         LabelCount(matrix[j], category) < LabelCount(matrix[h], category)

\* The 1-based position of the first cell of the row equal to the text, 0
\* when there is none.
FirstCell(row, text) ==
  IF \E i \in 1..Len(row) : SameHeaderText(row[i], text)
  THEN CHOOSE i \in 1..Len(row) :
         /\ SameHeaderText(row[i], text)
         /\ \A j \in 1..(i - 1) : ~SameHeaderText(row[j], text)
  ELSE 0

\* The 1-based column of the field as described: the first header cell
\* equal to its label, else the first header cell equal to the first of
\* its aliases that has one, else its declared position.
ColumnAsDescribed(headerRow, field, declared) ==
  IF FirstCell(headerRow, field.label) # 0
  THEN FirstCell(headerRow, field.label)
  ELSE IF \E k \in 1..Len(field.aliases) :
            FirstCell(headerRow, field.aliases[k]) # 0
  THEN FirstCell(headerRow,
         field.aliases[CHOOSE k \in 1..Len(field.aliases) :
           /\ FirstCell(headerRow, field.aliases[k]) # 0
           /\ \A j \in 1..(k - 1) : FirstCell(headerRow, field.aliases[j]) = 0])
  ELSE declared

\* One candidate for every row below the header row and none for any
\* other row, each holding the normalized cells of the fields' columns.
FlatExtractionAsDescribed(matrix, category, out) ==
  \/ matrix = <<>> /\ out = <<>>
  \/ /\ matrix # <<>>
     /\ \E h \in {HeaderRowAsDescribed(matrix, category)} :
          /\ Len(out) = Len(matrix) - h
          /\ \A n \in 1..Len(out) :
               /\ out[n].id = <<category.id, h + n - 1, now>>
               /\ \A i \in 1..Len(category.fields) :
                    out[n][category.fields[i].key]
                      = normalizeText(
                          CellAt(matrix[h + n],
                                 ColumnAsDescribed(matrix[h],
                                                   category.fields[i], i)))

\* C25: in the flat extraction the header row is the earliest of the first
\* at most 30 rows with the highest number of cells that equal, without
\* regard to case and after normalization, a label or an alias of a field;
\* the column of a field is the first header cell equal to its label, else
\* the first header cell equal to one of its aliases in alias order, else
\* its declared index; and every row below the header row, and no row at
\* or above it, becomes one candidate record.
C25_FlatExtraction ==
  [][ApplyParseFlatSheet
       => FlatExtractionAsDescribed(sheet_to_json(argument.sheet),
                                    categoriesById(argument.categoryId),
                                    result'.value)]_vars

\* A sheet has been read whose header row, found under 29 rows without a
\* label, names the title first by an alias and the serial by an alias in
\* mixed case: the one row under it is the one candidate, its title taken
\* from the first column and its serial from the second.
C25_Witness ==
  /\ result.fn = "parseFlatSheet"
  /\ Len(argument.sheet.rows) = MaxHeaderRows + 1
  /\ argument.sheet.rows[MaxHeaderRows]
       = << <<"pian", "ming">>, <<"i", "D">>, <<"shuo", "ming">> >>
  /\ argument.sheet.rows[MaxHeaderRows + 1]
       = << <<" ", "b", " ">>, <<"2">>, <<>> >>
  /\ Len(result.value) = 1
  /\ result.value[1].title = <<"b">>
  /\ result.value[1].serial = <<"2">>

\* A sheet has been read whose header row stands under 30 rows without a
\* label: it is not looked at, the first row is taken for the header row.
C25_WitnessBeyondLimit ==
  /\ result.fn = "parseFlatSheet"
  /\ Len(argument.sheet.rows) = MaxHeaderRows + 2
  /\ argument.sheet.rows[MaxHeaderRows + 1] = << L_serial, L_discTitle, L_remark >>
  /\ Len(result.value) = MaxHeaderRows + 1


(***************************************************************************)
(* Properties of the form and of its mutations (part_000 515-614)          *)
(***************************************************************************)

\* The records of the active category whose id is the one given.
RecordsWithId(id) ==
  {i \in 1..Len(records[activeCategory]) :
     records[activeCategory][i].id = id}

\* C26: every update from the edit form replaces exactly one record:
\* whenever handleSubmit stores a submission while editingId is not null,
\* the active category holds exactly one record with that id, also when
\* the record was deleted or the workbook was read again while the form
\* was open.
C26_UpdateReplacesOneRecord ==
  [][(handleSubmit /\ editingId # NoId /\ mutations' # mutations)
       => Cardinality(RecordsWithId(editingId)) = 1]_vars


\* The two lists hold the same records with an id other than the one
\* given, each as often in the one as in the other.
SameOtherRecords(before, after, id) ==
  \A record \in {before[i] : i \in 1..Len(before)}
                  \cup {after[i] : i \in 1..Len(after)} :
    record.id # id => Occurrences(before, record) = Occurrences(after, record)

OtherCategoriesKept ==
  \A c \in CategoryIds : c # activeCategory => records'[c] = records[c]

\* C27: a create, an update and a delete change the records of the active
\* category only; a create adds exactly one record, an update keeps the
\* number of records, a confirmed delete removes exactly the record with
\* the id given, a declined delete changes nothing and enqueues no
\* auto-save; every other record keeps its id and its fields.
C27_MutationFrame ==
  [][/\ (handleSubmit /\ mutations' # mutations)
          => /\ OtherCategoriesKept
             /\ IF editingId = NoId
                THEN /\ Len(records'[activeCategory])
                          = Len(records[activeCategory]) + 1
                     /\ RecordsWithId(createRecordId) = {}
                     /\ SameOtherRecords(records[activeCategory],
                                         records'[activeCategory],
                                         createRecordId)
                ELSE /\ Len(records'[activeCategory])
                          = Len(records[activeCategory])
                     /\ SameOtherRecords(records[activeCategory],
                                         records'[activeCategory], editingId)
     /\ \A i \in 1..Len(records[activeCategory]) :
          /\ handleDelete(records[activeCategory][i], TRUE)
               => /\ OtherCategoriesKept
                  /\ Len(records'[activeCategory])
                       = Len(records[activeCategory]) - 1
                  /\ \A j \in 1..Len(records'[activeCategory]) :
                       records'[activeCategory][j].id
                         # records[activeCategory][i].id
                  /\ SameOtherRecords(records[activeCategory],
                                      records'[activeCategory],
                                      records[activeCategory][i].id)
          /\ handleDelete(records[activeCategory][i], FALSE)
               => /\ records' = records
                  /\ autoSaveQueue' = autoSaveQueue
                  /\ mutations' = mutations
    ]_vars

\* One of the two DVD records of the workbook has been deleted and then
\* the other one updated through the edit form: one DVD record with the
\* serial typed, the hard-disk and Blu-ray records as they were read.
C27_Witness ==
  /\ mutations = 2
  /\ loads = <<>>
  /\ Len(records["dvd"]) = 1
  /\ records["dvd"][1].serial = <<"1", "0">>
  /\ Len(records["dvd"][1].id) = 4
  /\ Len(records["hdd"]) = 1
  /\ Len(records["bluray"]) = 2


(***************************************************************************)
(* The serial assignment on its own (part_000 209-276): SpecSerial applies *)
(* computeAutoSerial to lists of valid records of one category.            *)
(***************************************************************************)
MaxSerialRecords == 3

IntegerSerialPool == {<<"1">>, <<"2">>, <<"1", "0">>, <<"0", "2">>}

RangeSerialPool ==
  {<<"1", "-", "1">>, <<"1", "-", "0">>, <<"2", "-", "0">>,
   <<"2", "-", "3">>, <<"1", "-", "5", "1", "0">>}

SerialDiscRecord(serial) ==
  [id |-> <<"in">>, serial |-> serial, title |-> <<"a">>, remark |-> <<>>]

SerialHddRecord(disk, serial) ==
  [id |-> <<"in">>, disk |-> disk, serial |-> serial, title |-> <<"a">>,
   subtitle |-> <<>>, genre |-> <<>>, remark |-> <<>>]

\* The form of the category with the disk given.
SerialForm(categoryId, disk) ==
  [k \in FieldKeys(categoriesById(categoryId)) |->
     IF k = "disk" THEN disk ELSE <<>>]

SerialInputs ==
  {[fn |-> "computeAutoSerial", categoryId |-> categoryId,
    categoryRecords |-> categoryRecords,
    formValues |-> SerialForm(categoryId, <<>>)] :
     categoryId \in {"dvd", "collectorBluray"},
     categoryRecords \in
       SeqsUpTo({SerialDiscRecord(s) : s \in IntegerSerialPool},
                MaxSerialRecords)}
  \cup
  {[fn |-> "computeAutoSerial", categoryId |-> "bluray",
    categoryRecords |-> categoryRecords,
    formValues |-> SerialForm("bluray", <<>>)] :
     categoryRecords \in
       SeqsUpTo({SerialDiscRecord(s) : s \in RangeSerialPool},
                MaxSerialRecords)}
  \cup
  {[fn |-> "computeAutoSerial", categoryId |-> "hdd",
    categoryRecords |-> categoryRecords,
    formValues |-> SerialForm("hdd", disk)] :
     disk \in {<<>>, DiskOne, DiskTwo \o <<" ">>},
     categoryRecords \in
       SeqsUpTo({SerialHddRecord(d, s) :
                   d \in {DiskOne, DiskTwo}, s \in {<<"1">>, <<"2">>}},
                MaxSerialRecords)}

SerialInit ==
  /\ AppAtRest
  /\ argument \in SerialInputs
  /\ result = NoResult

ApplyComputeAutoSerial ==
  /\ argument.fn = "computeAutoSerial"
  /\ result' = [fn |-> "computeAutoSerial",
                value |-> computeAutoSerial(argument.categoryId,
                                            argument.categoryRecords,
                                            argument.formValues)]
  /\ UNCHANGED <<records, activeCategory, isFormOpen, editingId, formValues,
                 errorMessage, isSaving, autoSaveQueue, saving, loads, file,
                 now, mutations, loadsStarted, manualSaves, autoStarted,
                 autoSettled, searchValue, argument, host>>

SerialNext == ApplyComputeAutoSerial

SpecSerial == SerialInit /\ [][SerialNext]_vars

\* The records the serial must differ from: all records of a disc
\* category, the records on the disk of the form in the hard-disk
\* category.
SerialRivals(categoryId, categoryRecords, fv) ==
  {i \in 1..Len(categoryRecords) :
     categoryId = "hdd"
       => trim(categoryRecords[i].disk) = trim(FormDisk(fv))}

\* C28: the serial assigned to a new record never equals the serial of a
\* record of the category (of a record on the same disk in the hard-disk
\* category), for every list of records with valid serials, Blu-ray
\* serials with a second number 0 such as 2-0 included.
C28_AutoSerialUnused ==
  [][ApplyComputeAutoSerial
       => \A i \in SerialRivals(argument.categoryId, argument.categoryRecords,
                                argument.formValues) :
            trim(argument.categoryRecords[i].serial) # result'.value]_vars

\* The same for the lists in which the highest Blu-ray serial has no
\* second number 0.
AutoSerialUnusedAboveZero ==
  [][(/\ ApplyComputeAutoSerial
      /\ argument.categoryId = "bluray"
           => BlurayMaxLoop(argument.categoryRecords, 1, <<1, 0>>)[2] # 0)
       => \A i \in SerialRivals(argument.categoryId, argument.categoryRecords,
                                argument.formValues) :
            trim(argument.categoryRecords[i].serial) # result'.value]_vars


(***************************************************************************)
(* The main process on its own: SpecHost starts it in the development and  *)
(* in the packaged build with some data files on the disk, and lets the    *)
(* renderer call its three handlers.                                       *)
(***************************************************************************)
EmptyWorkbook == [ok |-> TRUE, sheets |-> <<>>]

\* The files the user can pick: a workbook, a file that is no workbook,
\* a file that cannot be read.
PickedFiles ==
  [filePath \in {"picked", "pickedNoWorkbook", "pickedUnreadable"} |->
     [exists |-> TRUE,
      content |-> IF filePath = "picked" THEN LegacyBuffer
                  ELSE MalformedBuffer]]

\* The data files present at the start.
SeedSets == {{}, {"project"}, {"public"}, {"executable"}, {"resource", "userData"}}

\* The renderer has started nothing.
HostInit ==
  /\ records = createEmptyRecords
  /\ activeCategory = DEFAULT_CATEGORY
  /\ isFormOpen = FALSE
  /\ editingId = NoId
  /\ formValues = resetForm(DEFAULT_CATEGORY, createEmptyRecords)
  /\ errorMessage = ""
  /\ isSaving = FALSE
  /\ autoSaveQueue = <<>>
  /\ saving = {}
  /\ loads = <<>>
  /\ file = MalformedBuffer
  /\ now = 0
  /\ mutations = 0
  /\ loadsStarted = 0
  /\ manualSaves = 0
  /\ autoStarted = <<>>
  /\ autoSettled = <<>>
  /\ searchValue = <<>>
  /\ argument = NoArgument
  /\ result = NoResult
  /\ \E isPackaged \in BOOLEAN :
     \E seeds \in SeedSets :
     \E readOnly \in {{}, {"project"}, {"executable"}, {"project", "userData"}} :
     \E saved \in {"", "picked", "appPath"} :
       host = [isPackaged |-> isPackaged, currentDataPath |-> "",
               settingsCache |-> [loaded |-> FALSE, dataPath |-> ""],
               settingsFile |-> [dataPath |-> saved],
               disk |-> [filePath \in HostPaths |->
                           IF filePath \in DOMAIN PickedFiles
                           THEN PickedFiles[filePath]
                           ELSE IF filePath \in seeds
                           THEN [exists |-> TRUE, content |-> EmptyWorkbook]
                           ELSE NoFile],
               readOnly |-> readOnly,
               unreadable |-> {"pickedUnreadable"},
               reply |-> NoReply]

HostUnchanged ==
  UNCHANGED <<records, activeCategory, isFormOpen, editingId, formValues,
              errorMessage, isSaving, autoSaveQueue, saving, loads, file,
              now, mutations, loadsStarted, manualSaves, autoStarted,
              autoSettled, searchValue, argument, result>>

\* ipcMain.handle("film:load-data")
LoadData(written) ==
  /\ \E ensured \in {ensureWritableDataFile(host, written)} :
       host' = [ensured.host EXCEPT
                  !.reply = IF ensured.threw THEN ErrorReply("film:load-data")
                            ELSE loadDataFile(ensured.host, "film:load-data",
                                              ensured.path)]
  /\ HostUnchanged

\* ipcMain.handle("film:save-data"); empty says that the payload is "".
SaveData(empty, contentBuffer, written) ==
  /\ host' = IF empty THEN [host EXCEPT !.reply = ErrorReply("film:save-data")]
             ELSE writeDataFile(host, "film:save-data", contentBuffer, written)
  /\ HostUnchanged

\* ipcMain.handle("film:pick-data-file"): the dialog is cancelled or
\* answers with the path selected.
PickDataFile(canceled, selected, written) ==
  /\ host' =
       IF canceled
       THEN [host EXCEPT !.reply = [NoReply EXCEPT
                                      !.request = "film:pick-data-file",
                                      !.canceled = TRUE]]
       ELSE \* currentDataPath = nextPath; await persistCurrentPath(...)
            LET next == persistCurrentPath(
                          [host EXCEPT !.currentDataPath = selected],
                          selected, written)
            IN [next EXCEPT
                  !.reply = IF ~written THEN ErrorReply("film:pick-data-file")
                            ELSE loadDataFile(next, "film:pick-data-file",
                                              selected)]
  /\ HostUnchanged

HostNext ==
  \/ \E written \in BOOLEAN : LoadData(written)
  \/ \E empty \in BOOLEAN : \E written \in BOOLEAN :
       \E contentBuffer \in {LegacyBuffer, EmptyWorkbook} :
         SaveData(empty, contentBuffer, written)
  \/ \E canceled \in BOOLEAN : \E written \in BOOLEAN :
       \E selected \in DOMAIN PickedFiles :
         PickDataFile(canceled, selected, written)

SpecHost == HostInit /\ [][HostNext]_vars

\* A pick-data-file step of the main process.
PickDataFileStep ==
  \E canceled \in BOOLEAN : \E written \in BOOLEAN :
    \E selected \in DOMAIN PickedFiles :
      PickDataFile(canceled, selected, written)

\* The reply carries a buffer that handlePickFile loads: the reply is ok
\* and parseWorkbook accepts the buffer.
PickedWorkbookLoaded(reply) == reply.ok /\ reply.data.ok

SaveTargetKept ==
  /\ host'.currentDataPath = host.currentDataPath
  /\ host'.settingsFile.dataPath = host.settingsFile.dataPath

\* C29: a pick-data-file request that does not end with the picked
\* workbook loaded (the dialog is cancelled, the file cannot be read, its
\* buffer is rejected by parseWorkbook) leaves the save target unchanged:
\* currentDataPath and the dataPath of the persisted settings are what
\* they were before the request.
C29_FailedPickKeepsSaveTarget ==
  [][(PickDataFileStep /\ ~PickedWorkbookLoaded(host'.reply))
       => SaveTargetKept]_vars

\* The same for the cancelled dialog only.
CancelledPickKeepsSaveTarget ==
  [][(PickDataFileStep /\ host'.reply.canceled) => SaveTargetKept]_vars


(***************************************************************************)
(* The application with a storage collaborator that never fails:           *)
(* SpecReliable lets the user create, update, delete, save and reload;     *)
(* every write reaches the data file and every load is answered with the   *)
(* data file.                                                              *)
(***************************************************************************)
ReliableNext ==
  \/ \E c \in SwitchTargets : handleCategorySwitch(c)
  \/ openCreateForm
  \/ \E i \in 1..Len(records[activeCategory]) :
       openEditForm(records[activeCategory][i])
  \/ \E k \in FieldKeys(categoriesById(activeCategory)) :
       \E v \in TypedValues(activeCategory, k) : handleFieldChange(k, v)
  \/ cancelForm
  \/ handleSubmit
  \/ \E i \in 1..Len(records[activeCategory]) :
       \E confirmed \in BOOLEAN :
         handleDelete(records[activeCategory][i], confirmed)
  \/ handleSave
  \/ AutoSaveStart
  \/ \E job \in saving : SaveSettle(job, TRUE)
  \/ LoadStart("default")
  \/ \E i \in 1..Len(loads) : DefaultLoadSettle(i, "data", file)

SpecReliable == Init /\ [][ReliableNext]_vars

\* No save is queued or in flight and no load is in flight.
AllSettled == saving = {} /\ autoSaveQueue = <<>> /\ loads = <<>>

\* C30: persistence converges: when every storage call succeeds, then
\* once a save has been issued and all saves and loads that were started
\* have settled, the stored workbook is the serialization of the records
\* in memory.
C30_PersistenceConverges ==
  (AllSettled /\ mutations + manualSaves > 0)
    => file = createWorkbookBlob(records)

=============================================================================
